---------------------------- MODULE Spec2Model ----------------------------
(***************************************************************************)
(* Indicator / signal pipeline of the forex analytics dashboard:          *)
(*   src/src/analysis/indicators.py   (TechnicalIndicators)               *)
(*   src/src/analysis/ai_analysis.py  (AIForecast)                        *)
(*   src/automation/forex_automation.py (ForexAutomation)                 *)
(*                                                                         *)
(* Floating-point numbers are modelled in fixed point: a real x is the    *)
(* integer x * Scale, and every division floors.  NaN is a reserved       *)
(* value that every arithmetic operator propagates and every comparison   *)
(* rejects, as IEEE comparisons do.  Arrays are 1-based sequences, so the *)
(* Python index i is the index i+1 here and x[-1] is Last(x).             *)
(***************************************************************************)
EXTENDS Integers, Sequences, FiniteSets, TLC

\* ------------------------------------------------------------------------
\* Numbers
\* ------------------------------------------------------------------------

\* Fixed-point resolution: one unit is 0.000001.
Scale == 1000000

\* Fix(n) is the integer n as a fixed-point number.
Fix(n) == n * Scale

\* numpy.nan
NaN == -2000000000

IsNaN(x) == x = NaN

\* IEEE comparisons: any comparison with NaN is False.
Gt(a, b) == ~IsNaN(a) /\ ~IsNaN(b) /\ a > b
Lt(a, b) == ~IsNaN(a) /\ ~IsNaN(b) /\ a < b
Ge(a, b) == ~IsNaN(a) /\ ~IsNaN(b) /\ a >= b

Add(a, b) == IF IsNaN(a) \/ IsNaN(b) THEN NaN ELSE a + b
Sub(a, b) == IF IsNaN(a) \/ IsNaN(b) THEN NaN ELSE a - b
\* k is a plain integer factor
Times(k, a) == IF IsNaN(a) THEN NaN ELSE k * a

Abs(a) == IF a < 0 THEN 0 - a ELSE a
Max2(a, b) == IF a >= b THEN a ELSE b
Min2(a, b) == IF a <= b THEN a ELSE b

\* a * b / Scale for fixed-point a, b without leaving 32 bits: b is split
\* into its integer part, its thousandths and the rest.
MulAbs(a, b) ==
    a * (b \div Scale)
    + (a * ((b % Scale) \div 1000)) \div 1000
    + (a * (b % 1000)) \div Scale

MulFix(a, b) ==
    IF IsNaN(a) \/ IsNaN(b) THEN NaN
    ELSE IF (a < 0) = (b < 0) THEN MulAbs(Abs(a), Abs(b))
    ELSE 0 - MulAbs(Abs(a), Abs(b))

\* a * Scale / b for 0 <= a, 0 < b, by long division in base 1000.
DivAbs(a, b) ==
    LET q0 == a \div b
        r0 == a % b
        q1 == (r0 * 1000) \div b
        r1 == (r0 * 1000) % b
        q2 == (r1 * 1000) \div b
    IN  q0 * Scale + q1 * 1000 + q2

\* Float division: x/0 is inf for x # 0 (not representable here, callers
\* decide) and 0/0 is NaN.
DivFix(a, b) ==
    IF IsNaN(a) \/ IsNaN(b) \/ b = 0 THEN NaN
    ELSE IF (a < 0) = (b < 0) THEN DivAbs(Abs(a), Abs(b))
    ELSE 0 - DivAbs(Abs(a), Abs(b))

\* round(x, n): to the nearest multiple of step = Scale / 10^n, halves to the
\* even multiple (numpy's and Python's rounding); NaN stays NaN.
RoundTo(x, step) ==
    IF IsNaN(x) THEN NaN
    ELSE LET q == x \div step
             r == x % step
         IN  IF 2 * r < step THEN q * step
             ELSE IF 2 * r > step THEN (q + 1) * step
             ELSE IF q % 2 = 0 THEN q * step ELSE (q + 1) * step

Round5(x) == RoundTo(x, Scale \div 100000)
Round2(x) == RoundTo(x, Scale \div 100)

Last(s) == s[Len(s)]

RECURSIVE SumRange(_, _, _)
\* x[lo] + ... + x[hi], summed by halves
SumRange(x, lo, hi) ==
    IF lo > hi THEN 0
    ELSE IF lo = hi THEN x[lo]
    ELSE LET mid == (lo + hi) \div 2
         IN  SumRange(x, lo, mid) + SumRange(x, mid + 1, hi)

\* ------------------------------------------------------------------------
\* Series transforms (TechnicalIndicators)
\* ------------------------------------------------------------------------

\* pd.Series(x).rolling(window).mean(): undefined until the window is full.
RollingMean(x, window) ==
    [i \in 1..Len(x) |->
        IF i < window THEN NaN
        ELSE SumRange(x, i - window + 1, i) \div window]

sma(data, period) == RollingMean(data, period)

RECURSIVE EwmRange(_, _, _, _, _)
\* The smoothed values at lo..hi, given the smoothed value `prev` at lo-1:
\* y[i] = a*x[i] + (1-a)*y[i-1] with a = 2/(span+1).
EwmRange(x, span, lo, hi, prev) ==
    IF lo > hi THEN <<>>
    ELSE IF lo = hi
         THEN << (2 * x[lo] + (span - 1) * prev) \div (span + 1) >>
    ELSE LET mid == (lo + hi) \div 2
             left == EwmRange(x, span, lo, mid, prev)
         IN  left \o EwmRange(x, span, mid + 1, hi, left[Len(left)])

\* pd.Series(x).ewm(span, adjust=False).mean(): y[0] = x[0], then the
\* recursion above.
ema(data, period) ==
    IF Len(data) = 0 THEN <<>>
    ELSE <<data[1]>> \o EwmRange(data, period, 2, Len(data), data[1])

\* prices.diff() followed by where(delta > 0, 0): the first delta is NaN and
\* is replaced by 0, like every non-positive delta.
Gains(data) ==
    [i \in 1..Len(data) |->
        IF i = 1 THEN 0 ELSE Max2(data[i] - data[i - 1], 0)]
Losses(data) ==
    [i \in 1..Len(data) |->
        IF i = 1 THEN 0 ELSE Max2(data[i - 1] - data[i], 0)]

\* 100 - 100/(1 + g/l) for the window sums g, l (the two rolling means share
\* the divisor): l = 0 gives rs = inf and RSI 100, or rs = 0/0 = NaN when
\* g = 0 too.  Otherwise 100*g/(g+l), by long division.
RsiValue(g, l) ==
    IF l = 0 THEN (IF g = 0 THEN NaN ELSE Fix(100))
    ELSE LET d == g + l
             q1 == (g * 10000) \div d
             r1 == (g * 10000) % d
         IN  q1 * 10000 + (r1 * 10000) \div d

rsi(data, period) ==
    LET gains == Gains(data)
        losses == Losses(data)
    IN  [i \in 1..Len(data) |->
            IF i < period THEN NaN
            ELSE RsiValue(SumRange(gains, i - period + 1, i),
                          SumRange(losses, i - period + 1, i))]

macd(data, fast_period, slow_period, signal_period) ==
    LET ema_fast == ema(data, fast_period)
        ema_slow == ema(data, slow_period)
        macd_line == [i \in 1..Len(data) |-> ema_fast[i] - ema_slow[i]]
        signal_line == ema(macd_line, signal_period)
        histogram == [i \in 1..Len(data) |-> macd_line[i] - signal_line[i]]
    IN  [macd_line |-> macd_line, signal_line |-> signal_line,
         histogram |-> histogram]

\* max(high-low, |high-prevClose|, |low-prevClose|); the two shifted terms
\* are NaN at the first row and the row maximum skips them.
TrueRange(high, low, close) ==
    [i \in 1..Len(close) |->
        IF i = 1 THEN high[i] - low[i]
        ELSE Max2(high[i] - low[i],
                  Max2(Abs(high[i] - close[i - 1]), Abs(low[i] - close[i - 1])))]

atr(high, low, close, period) ==
    RollingMean(TrueRange(high, low, close), period)

\* ------------------------------------------------------------------------
\* Array kinds: the transforms mix numpy arrays and pandas Series
\* ------------------------------------------------------------------------

NdArray(v) == [kind |-> "ndarray", v |-> v]
PdSeries(v) == [kind |-> "Series", v |-> v]

Raise(exc) == [kind |-> "raise", exc |-> exc]

\* x.values: an attribute of a pandas Series; a numpy array has none.
Values(x) ==
    IF x.kind = "Series" THEN NdArray(x.v) ELSE Raise("AttributeError")

\* a + b or a - b of two arrays, elementwise; the result is a Series as soon
\* as one operand is a Series.
ArrayBinop(a, b, sign) ==
    [kind |-> IF a.kind = "Series" \/ b.kind = "Series"
              THEN "Series" ELSE "ndarray",
     v |-> [i \in 1..Len(a.v) |->
              IF sign > 0 THEN Add(a.v[i], b.v[i]) ELSE Sub(a.v[i], b.v[i])]]

RECURSIVE IsqrtFrom(_, _)
IsqrtFrom(n, r) == IF (r + 1) * (r + 1) > n THEN r ELSE IsqrtFrom(n, r + 1)

RECURSIVE Isqrt(_)
\* floor of the square root
Isqrt(n) ==
    IF n < 4 THEN IsqrtFrom(n, 0)
    ELSE LET r == 2 * Isqrt(n \div 4)
         IN  IF (r + 1) * (r + 1) <= n THEN r + 1 ELSE r

RECURSIVE MaxAbsDev(_, _, _, _)
\* max |x[i] - m| over lo..hi
MaxAbsDev(x, m, lo, hi) ==
    IF lo > hi THEN 0
    ELSE IF lo = hi THEN Abs(x[lo] - m)
    ELSE LET mid == (lo + hi) \div 2
         IN  Max2(MaxAbsDev(x, m, lo, mid), MaxAbsDev(x, m, mid + 1, hi))

RECURSIVE SumSqDev(_, _, _, _, _)
\* ((x[lo]-m)/k)^2 + ... + ((x[hi]-m)/k)^2
SumSqDev(x, m, k, lo, hi) ==
    IF lo > hi THEN 0
    ELSE IF lo = hi THEN (Abs(x[lo] - m) \div k) * (Abs(x[lo] - m) \div k)
    ELSE LET mid == (lo + hi) \div 2
         IN  SumSqDev(x, m, k, lo, mid) + SumSqDev(x, m, k, mid + 1, hi)

\* Standard deviation of x[lo..hi] with ddof delta degrees of freedom:
\* sqrt(sum((x - mean)^2) / (n - ddof)).  Large deviations are squared in
\* units of k so that the sum stays within 32 bits.
StdDev(x, lo, hi, ddof) ==
    LET n == hi - lo + 1
        m == SumRange(x, lo, hi) \div n
        k == 1 + MaxAbsDev(x, m, lo, hi) \div 5000
    IN  IF n - ddof <= 0 THEN NaN
        ELSE k * Isqrt(SumSqDev(x, m, k, lo, hi) \div (n - ddof))

\* pd.Series(x).rolling(window).std(): the sample standard deviation (ddof=1)
\* of the trailing window.
RollingStd(x, window) ==
    [i \in 1..Len(x) |->
        IF i < window THEN NaN ELSE StdDev(x, i - window + 1, i, 1)]

\* bollinger_bands: sma() already returns a numpy array (it ends in .values),
\* std is a Series, so upper and lower are Series and `middle.values` is an
\* attribute access on a numpy array.  The returned tuple is built left to
\* right.
bollinger_bands(data, period, std_dev) ==
    LET middle == NdArray(sma(data, period))
        std == PdSeries(RollingStd(data, period))
        width == PdSeries([i \in 1..Len(data) |-> Times(std_dev, std.v[i])])
        upper == ArrayBinop(middle, width, 1)
        lower == ArrayBinop(middle, width, -1)
        u == Values(upper)
        m == Values(middle)
        l == Values(lower)
    IN  IF u.kind = "raise" THEN u
        ELSE IF m.kind = "raise" THEN m
        ELSE IF l.kind = "raise" THEN l
        ELSE [kind |-> "ok", upper |-> u.v, middle |-> m.v, lower |-> l.v]

\* ------------------------------------------------------------------------
\* Signal classifier (TechnicalIndicators.analyze)
\* ------------------------------------------------------------------------

\* An indicator snapshot is the dict analyze() builds: a record with the
\* fields ema_12, sma_20, sma_50, macd, macd_signal, bb_upper, bb_middle,
\* bb_lower (every key present, so no dict.get default is used).

\* Variant of determine_trend without the MACD vote.
determine_trend_two_votes(indicators) ==
    LET v1 == IF Gt(indicators.ema_12, indicators.sma_20) THEN 1 ELSE 0
        v2 == IF Gt(indicators.sma_20, indicators.sma_50) THEN 1 ELSE 0
    IN  IF v1 + v2 > 1 THEN "bullish"
        ELSE IF v1 + v2 < 1 THEN "bearish"
        ELSE "neutral"

\* Variant of determine_trend in which a comparison with an undefined value
\* casts no vote.
determine_trend_abstaining(indicators) ==
    LET vote(a, b) == IF IsNaN(a) \/ IsNaN(b) THEN 0
                      ELSE IF a > b THEN 1 ELSE -1
        balance == vote(indicators.ema_12, indicators.sma_20)
                   + vote(indicators.sma_20, indicators.sma_50)
                   + vote(indicators.macd, indicators.macd_signal)
    IN  IF balance > 0 THEN "bullish"
        ELSE IF balance < 0 THEN "bearish"
        ELSE "neutral"

determine_trend(indicators) ==
    LET price == indicators.ema_12
        sma20 == indicators.sma_20
        sma50 == indicators.sma_50
        macd_v == indicators.macd
        macd_signal == indicators.macd_signal
        v1 == IF Gt(price, sma20) THEN 1 ELSE 0
        v2 == IF Gt(sma20, sma50) THEN 1 ELSE 0
        v3 == IF Gt(macd_v, macd_signal) THEN 1 ELSE 0
        bullish_count == v1 + v2 + v3
        bearish_count == (1 - v1) + (1 - v2) + (1 - v3)
    IN  IF bullish_count > bearish_count THEN "bullish"
        ELSE IF bearish_count > bullish_count THEN "bearish"
        ELSE "neutral"

\* Variant of signal_score whose band term compares ema_12, the price of the
\* "Price vs SMA" term, with the bands.
signal_score_price_vs_bands(indicators, rsi_val) ==
    LET rsi_term == IF Lt(rsi_val, Fix(30)) THEN 30
                    ELSE IF Gt(rsi_val, Fix(70)) THEN -30 ELSE 0
        macd_term == IF Gt(indicators.macd, indicators.macd_signal)
                     THEN 20 ELSE -20
        sma_term == IF Gt(indicators.ema_12, indicators.sma_20)
                    THEN 20 ELSE -20
        price == indicators.ema_12
        bb_term == IF Lt(price, indicators.bb_lower) THEN 15
                   ELSE IF Gt(price, indicators.bb_upper) THEN -15 ELSE 0
    IN  rsi_term + macd_term + sma_term + bb_term

\* The score _generate_signal accumulates.  `price` is ema_12 for the
\* "Price vs SMA" term and is then rebound to bb_middle for the band term.
signal_score(indicators, rsi_val) ==
    LET rsi_term == IF Lt(rsi_val, Fix(30)) THEN 30
                    ELSE IF Gt(rsi_val, Fix(70)) THEN -30 ELSE 0
        macd_term == IF Gt(indicators.macd, indicators.macd_signal)
                     THEN 20 ELSE -20
        sma_term == IF Gt(indicators.ema_12, indicators.sma_20)
                    THEN 20 ELSE -20
        price == indicators.bb_middle
        bb_term == IF Lt(price, indicators.bb_lower) THEN 15
                   ELSE IF Gt(price, indicators.bb_upper) THEN -15 ELSE 0
    IN  rsi_term + macd_term + sma_term + bb_term

generate_signal(indicators, rsi_val) ==
    LET score == signal_score(indicators, rsi_val)
    IN  IF score > 40 THEN [signal |-> "buy", confidence |-> Min2(score, 95)]
        ELSE IF score < -40
             THEN [signal |-> "sell", confidence |-> Min2(Abs(score), 95)]
        ELSE [signal |-> "hold", confidence |-> 50]

\* analyze(data): data[-1]-style indexing of an empty array raises
\* IndexError; otherwise the indicators are computed in order and the first
\* call that raises ends the call.
analyze(data) ==
    IF Len(data) = 0 THEN Raise("IndexError")
    ELSE
    LET m == macd(data, 12, 26, 9)
        bb == bollinger_bands(data, 20, 2)
        rsi_val == Last(rsi(data, 14))
    IN  IF bb.kind = "raise" THEN bb
        ELSE
        LET indicators ==
              [sma_20 |-> Last(sma(data, 20)),
               sma_50 |-> Last(sma(data, 50)),
               sma_200 |-> IF Len(data) > 200 THEN Last(sma(data, 200))
                           ELSE NaN,
               has_sma_200 |-> Len(data) > 200,
               ema_12 |-> Last(ema(data, 12)),
               ema_26 |-> Last(ema(data, 26)),
               rsi |-> rsi_val,
               macd |-> Last(m.macd_line),
               macd_signal |-> Last(m.signal_line),
               macd_histogram |-> Last(m.histogram),
               bb_upper |-> Last(bb.upper),
               bb_middle |-> Last(bb.middle),
               bb_lower |-> Last(bb.lower)]
            sig == generate_signal(indicators, rsi_val)
        IN  [kind |-> "AnalysisResult",
             trend |-> determine_trend(indicators),
             signal |-> sig.signal,
             confidence |-> sig.confidence,
             indicators |-> indicators]

\* ------------------------------------------------------------------------
\* Aggregator (ForexAutomation)
\* ------------------------------------------------------------------------

None == [kind |-> "None"]

\* A pandas DataFrame: its row count and its columns.
DataFrame(rows, cols) == [kind |-> "DataFrame", rows |-> rows, cols |-> cols]

HasColumn(df, c) == c \in DOMAIN df.cols

\* The frame get_historical_data builds from a rate series: open and close
\* are the rate, high and low are the rate * 1.001 and * 0.999.
RateFrame(rates) ==
    DataFrame(Len(rates),
        [c \in {"open", "high", "low", "close"} |->
            IF c = "high" THEN [i \in 1..Len(rates) |-> MulFix(rates[i], 1001000)]
            ELSE IF c = "low"
                 THEN [i \in 1..Len(rates) |-> MulFix(rates[i], 999000)]
            ELSE rates])

\* Scores are kept in tenths of a point so that the half point of the
\* histogram vote is an integer: 2 points = 20, 1 point = 10, 0.5 = 5.
vote_scores(rsi_v, sma_20, sma_50, macd_last, signal_last, hist_last) ==
    LET rsi_buy == IF Lt(rsi_v, Fix(30)) THEN 20 ELSE 0
        rsi_sell == IF ~Lt(rsi_v, Fix(30)) /\ Gt(rsi_v, Fix(70)) THEN 20 ELSE 0
        ma_buy == IF Gt(sma_20, sma_50) THEN 10 ELSE 0
        macd_buy == IF Gt(macd_last, signal_last) THEN 10 ELSE 0
        hist_buy == IF Gt(hist_last, 0) THEN 5 ELSE 0
    IN  [buy_score |-> rsi_buy + ma_buy + macd_buy + hist_buy,
         sell_score |-> rsi_sell + (10 - ma_buy) + (10 - macd_buy)
                        + (5 - hist_buy),
         notes |-> (IF rsi_buy > 0 THEN <<"RSI oversold">>
                    ELSE IF rsi_sell > 0 THEN <<"RSI overbought">> ELSE <<>>)
                   \o (IF ma_buy > 0 THEN <<"MA bullish">>
                       ELSE <<"MA bearish">>)
                   \o (IF macd_buy > 0 THEN <<"MACD bullish">>
                       ELSE <<"MACD bearish">>)]

\* Variant of signal_confidence that adds 10 per point.
signal_confidence_steep(score) == Min2(Fix(60) + score * Scale, Fix(90))

\* min(60 + score * 5, 90) for a score in tenths of a point.
signal_confidence(score) == Min2(Fix(60) + score * (Scale \div 2), Fix(90))

\* Variant of decide_signal with a 2.5-point threshold.
decide_signal_low_threshold(buy_score, sell_score) ==
    IF buy_score >= 25
    THEN [signal_type |-> "buy", confidence |-> signal_confidence(buy_score),
          prefix |-> "BULLISH SIGNALS"]
    ELSE IF sell_score >= 25
    THEN [signal_type |-> "sell", confidence |-> signal_confidence(sell_score),
          prefix |-> "BEARISH SIGNALS"]
    ELSE [signal_type |-> "hold", confidence |-> Fix(50),
          prefix |-> "MIXED SIGNALS"]

decide_signal(buy_score, sell_score) ==
    IF buy_score >= 40
    THEN [signal_type |-> "buy", confidence |-> signal_confidence(buy_score),
          prefix |-> "BULLISH SIGNALS"]
    ELSE IF sell_score >= 40
    THEN [signal_type |-> "sell", confidence |-> signal_confidence(sell_score),
          prefix |-> "BEARISH SIGNALS"]
    ELSE [signal_type |-> "hold", confidence |-> Fix(50),
          prefix |-> "MIXED SIGNALS"]

\* Variant of stop_levels with the two ATR multiples exchanged.
stop_levels_swapped(signal_type, current_price, atr_v) ==
    IF signal_type = "buy"
    THEN [stop_loss |-> Sub(current_price, Times(3, atr_v)),
          take_profit |-> Add(current_price, Times(2, atr_v))]
    ELSE IF signal_type = "sell"
    THEN [stop_loss |-> Add(current_price, Times(3, atr_v)),
          take_profit |-> Sub(current_price, Times(2, atr_v))]
    ELSE [stop_loss |-> current_price, take_profit |-> current_price]

\* The stop and the target before rounding.
stop_levels(signal_type, current_price, atr_v) ==
    IF signal_type = "buy"
    THEN [stop_loss |-> Sub(current_price, Times(2, atr_v)),
          take_profit |-> Add(current_price, Times(3, atr_v))]
    ELSE IF signal_type = "sell"
    THEN [stop_loss |-> Add(current_price, Times(2, atr_v)),
          take_profit |-> Sub(current_price, Times(3, atr_v))]
    ELSE [stop_loss |-> current_price, take_profit |-> current_price]

\* What one analyze_pair call hands back to the step that runs it: the
\* returned value, the line it logged and its local variables.
Returned(value, level, pair, locals) ==
    [kind |-> "return", value |-> value,
     log |-> [level |-> level, pair |-> pair], locals |-> locals]

\* Lines 92-182 of analyze_pair: the signal built from the indicator values,
\* the current price and the ATR.
build_signal(pair, t, current_price, rsi_v, sma_20, sma_50, m_last, s_last, atr_v) ==
    LET hist_last == m_last - s_last
        votes == vote_scores(rsi_v, sma_20, sma_50, m_last, s_last,
                             hist_last)
        decision == decide_signal(votes.buy_score, votes.sell_score)
        levels == stop_levels(decision.signal_type, current_price, atr_v)
    IN  Returned([kind |-> "TradingSignal",
                  pair |-> pair,
                  signal_type |-> decision.signal_type,
                  confidence |-> decision.confidence,
                  entry_price |-> current_price,
                  stop_loss |-> Round5(levels.stop_loss),
                  take_profit |-> Round5(levels.take_profit),
                  reason |-> <<decision.prefix>> \o votes.notes,
                  indicators |-> [rsi |-> Round2(rsi_v),
                                  sma_20 |-> Round5(sma_20),
                                  sma_50 |-> Round5(sma_50),
                                  macd |-> Round5(m_last),
                                  histogram |-> Round5(hist_last)],
                  timestamp |-> t,
                  notified |-> FALSE],
                 "info", pair,
                 [kind |-> "locals", rsi |-> rsi_v, sma_20 |-> sma_20,
                  sma_50 |-> sma_50, macd |-> m_last,
                  signal_line |-> s_last, histogram |-> hist_last,
                  buy_score |-> votes.buy_score,
                  sell_score |-> votes.sell_score, atr |-> atr_v])

\* Lines 81-156 of analyze_pair on a frame with n rows: the indicators of the
\* close column (m is what macd returned), then the ATR, which needs the
\* high and low columns.
analyze_frame(pair, t, df, closes, n, m) ==
    IF ~HasColumn(df, "high") \/ ~HasColumn(df, "low") THEN Raise("KeyError")
    ELSE build_signal(pair, t, closes[n], rsi(closes, 14)[n],
                      sma(closes, 20)[n], sma(closes, 50)[n],
                      m.macd_line[n], m.signal_line[n],
                      atr(df.cols["high"], df.cols["low"], closes, 14)[n])

\* The body of the try block of analyze_pair.  `fetched` is what the data
\* collaborator produced for the pair (an exception raised before the data
\* is there, None, or a frame) and t is the clock reading.
analyze_pair_body(pair, fetched, t) ==
    IF fetched.kind = "raise" THEN fetched
    ELSE IF fetched.kind = "None" THEN Returned(None, "warning", pair, None)
    ELSE IF fetched.rows = 0 THEN Returned(None, "warning", pair, None)
    ELSE IF ~HasColumn(fetched, "close") THEN Raise("KeyError")
    ELSE analyze_frame(pair, t, fetched, fetched.cols["close"], fetched.rows,
                       macd(fetched.cols["close"], 12, 26, 9))

\* except Exception: an exception of the body becomes a logged error and a
\* None result.
Caught(r, pair) ==
    IF r.kind = "raise" THEN Returned(None, "error", pair, None) ELSE r

\* Variant of analyze_pair without the except clause.
analyze_pair_unguarded(pair, fetched, t) == analyze_pair_body(pair, fetched, t)

\* analyze_pair: the try block under its except clause.
analyze_pair(pair, fetched, t) ==
    Caught(analyze_pair_body(pair, fetched, t), pair)

RECURSIVE InsertBeforeEqual(_, _, _)
\* Variant of InsertByConfidence of a sort that is not stable: s goes before
\* the elements of its own confidence.
InsertBeforeEqual(sorted, s, i) ==
    IF i > Len(sorted) THEN Append(sorted, s)
    ELSE IF sorted[i].confidence > s.confidence
         THEN InsertBeforeEqual(sorted, s, i + 1)
    ELSE SubSeq(sorted, 1, i - 1) \o <<s>> \o SubSeq(sorted, i, Len(sorted))

RECURSIVE InsertByConfidence(_, _, _)
\* list.sort(key=confidence, reverse=True) is stable: s goes behind every
\* element whose confidence is at least its own.
InsertByConfidence(sorted, s, i) ==
    IF i > Len(sorted) THEN Append(sorted, s)
    ELSE IF sorted[i].confidence >= s.confidence
         THEN InsertByConfidence(sorted, s, i + 1)
    ELSE SubSeq(sorted, 1, i - 1) \o <<s>> \o SubSeq(sorted, i, Len(sorted))

RECURSIVE SortByConfidence(_, _)
SortByConfidence(list, k) ==
    IF k = 0 THEN <<>>
    ELSE InsertByConfidence(SortByConfidence(list, k - 1), list[k], 1)

\* Variant of get_opportunities that keeps a signal only above the threshold.
get_opportunities_strict(signals, min_conf) ==
    LET keep(s) == s.confidence > min_conf /\ s.signal_type # "hold"
        kept == SelectSeq(signals, keep)
    IN  SortByConfidence(kept, Len(kept))

\* The filter and the sort of get_opportunities, applied to what
\* check_all_pairs returned.
get_opportunities(signals, min_conf) ==
    LET keep(s) == s.confidence >= min_conf /\ s.signal_type # "hold"
        kept == SelectSeq(signals, keep)
    IN  SortByConfidence(kept, Len(kept))

\* `if signal: signals.append(signal)` for the outcome r of analyze_pair.
appended(r) == IF r.value.kind = "TradingSignal" THEN <<r.value>> ELSE <<>>

RECURSIVE check_all_pairs_until_failure(_, _, _)
\* Variant of check_all_pairs that ends the loop at the first pair without
\* a signal.
check_all_pairs_until_failure(pairs, fetch, t) ==
    IF pairs = <<>> THEN <<>>
    ELSE IF appended(analyze_pair(Head(pairs), fetch[Head(pairs)], t)) = <<>>
         THEN <<>>
    ELSE appended(analyze_pair(Head(pairs), fetch[Head(pairs)], t))
         \o check_all_pairs_until_failure(Tail(pairs), fetch, t)

RECURSIVE check_all_pairs(_, _, _)
\* check_all_pairs as a function of self.monitored_pairs, of what the data
\* collaborator produces for each pair and of the clock: the local list
\* `signals` after the loop.
check_all_pairs(pairs, fetch, t) ==
    IF pairs = <<>> THEN <<>>
    ELSE appended(analyze_pair(Head(pairs), fetch[Head(pairs)], t))
         \o check_all_pairs(Tail(pairs), fetch, t)

\* ------------------------------------------------------------------------
\* Forecast and backtest (AIForecast)
\* ------------------------------------------------------------------------

\* np.diff(prices) / prices[:-1]
PctReturns(prices) ==
    [i \in 1..(Len(prices) - 1) |->
        DivFix(prices[i + 1] - prices[i], prices[i])]

\* Variant of InsufficientHistory with a 13-observation minimum.
InsufficientHistory13(prices) == Len(prices) < 13

\* The guard of forecast: len(prices) < 14.
InsufficientHistory(prices) == Len(prices) < 14

\* Variant of Scenario that leaves out the 1 of (1 + growth).
ScenarioGrowthOnly(current_price, growth) == MulFix(current_price, growth)

\* current_price * (1 + growth): the projection of one scenario.
Scenario(current_price, growth) == MulFix(current_price, Scale + growth)

\* forecast(prices, periods): a dict, modelled as a record whose fields are
\* the dict's keys.
forecast(prices, periods) ==
    IF InsufficientHistory(prices)
    THEN [error |-> "Insufficient data for forecast"]
    ELSE
    LET returns == PctReturns(prices)
        n == Len(prices) - 1
        lo == Max2(1, n - 13)
        avg_return == SumRange(returns, lo, n) \div (n - lo + 1)
        std_return == StdDev(returns, lo, n, 0)
        current_price == prices[Len(prices)]
        bullish == Scenario(current_price,
                            avg_return * periods + std_return * periods)
        bearish == Scenario(current_price,
                            avg_return * periods - std_return * periods)
        expected == Scenario(current_price, avg_return * periods)
    IN  [current_price |-> Round5(current_price),
         periods |-> periods,
         forecasts |-> [bullish |-> Round5(bullish),
                        expected |-> Round5(expected),
                        bearish |-> Round5(bearish)],
         expected_change_pct |-> Round2(avg_return * periods * 100),
         volatility_index |-> Round2(std_return * 100),
         disclaimer |-> "EDUCATIONAL FORECAST ONLY - Not guaranteed"]

RECURSIVE BacktestLoop(_, _, _, _, _)
\* The loop of backtest_signal from index i on, with the position held when
\* entering step i; n is the last index.
BacktestLoop(short_ma, long_ma, i, n, position) ==
    IF i > n THEN <<>>
    ELSE IF Gt(short_ma[i], long_ma[i]) /\ position = 0
         THEN <<"BUY">> \o BacktestLoop(short_ma, long_ma, i + 1, n, 1)
    ELSE IF Lt(short_ma[i], long_ma[i]) /\ position = 1
         THEN <<"SELL">> \o BacktestLoop(short_ma, long_ma, i + 1, n, 0)
    ELSE <<"HOLD">> \o BacktestLoop(short_ma, long_ma, i + 1, n, position)

RECURSIVE StatelessLoop(_, _, _, _)
\* Variant of the loop that does not track the position.
StatelessLoop(short_ma, long_ma, i, n) ==
    IF i > n THEN <<>>
    ELSE IF Gt(short_ma[i], long_ma[i])
         THEN <<"BUY">> \o StatelessLoop(short_ma, long_ma, i + 1, n)
    ELSE IF Lt(short_ma[i], long_ma[i])
         THEN <<"SELL">> \o StatelessLoop(short_ma, long_ma, i + 1, n)
    ELSE <<"HOLD">> \o StatelessLoop(short_ma, long_ma, i + 1, n)

backtest_signals_stateless(prices, short_period, long_period) ==
    StatelessLoop(RollingMean(prices, short_period),
                  RollingMean(prices, long_period),
                  long_period + 1, Len(prices))

\* Variant of backtest_signals whose loop starts at the first index with a
\* full long window, range(long_period - 1, len(prices)).
backtest_signals_from_full_window(prices, short_period, long_period) ==
    BacktestLoop(RollingMean(prices, short_period),
                 RollingMean(prices, long_period),
                 long_period, Len(prices), 0)

\* The local list `signals` of backtest_signal: range(long_period, len(prices))
\* is the index range long_period+1 .. Len(prices) here.
backtest_signals(prices, short_period, long_period) ==
    BacktestLoop(RollingMean(prices, short_period),
                 RollingMean(prices, long_period),
                 long_period + 1, Len(prices), 0)

\* list.count(v)
Count(list, v) == Cardinality({ k \in DOMAIN list : list[k] = v })

backtest_signal(prices, short_period, long_period) ==
    IF Len(prices) < long_period THEN [error |-> "Insufficient data"]
    ELSE
    LET emitted == backtest_signals(prices, short_period, long_period)
    IN  [total_signals |-> Len(emitted),
         buy_signals |-> Count(emitted, "BUY"),
         sell_signals |-> Count(emitted, "SELL"),
         hold_signals |-> Count(emitted, "HOLD"),
         strategy |-> "MA Crossover",
         short_period |-> short_period,
         long_period |-> long_period,
         disclaimer |-> "Past performance does not guarantee future results"]

\* ------------------------------------------------------------------------
\* Sentiment scoring (MLAnalyzer.analyze_sentiment_score)
\* ------------------------------------------------------------------------

\* A string is the sequence of its characters.
positive_words ==
    <<
      <<"g", "a", "i", "n">>,
      <<"r", "i", "s", "e">>,
      <<"s", "u", "r", "g", "e">>,
      <<"r", "a", "l", "l", "y">>,
      <<"g", "r", "o", "w", "t", "h">>,
      <<"s", "t", "r", "o", "n", "g">>,
      <<"b", "u", "l", "l", "i", "s", "h">>,
      <<"o", "p", "t", "i", "m", "i", "s", "t", "i", "c">>,
      <<"r", "e", "c", "o", "v", "e", "r", "y">>,
      <<"b", "r", "e", "a", "k", "t", "h", "r", "o", "u", "g", "h">> >>

negative_words ==
    <<
      <<"f", "a", "l", "l">>,
      <<"d", "r", "o", "p">>,
      <<"d", "e", "c", "l", "i", "n", "e">>,
      <<"c", "r", "a", "s", "h">>,
      <<"w", "e", "a", "k">>,
      <<"b", "e", "a", "r", "i", "s", "h">>,
      <<"p", "e", "s", "s", "i", "m", "i", "s", "t", "i", "c">>,
      <<"r", "e", "c", "e", "s", "s", "i", "o", "n">>,
      <<"c", "r", "i", "s", "i", "s">>,
      <<"l", "o", "s", "s">>,
      <<"p", "l", "u", "n", "g", "e">> >>

\* str.lower(), on the letters that occur in upper case in the headlines.
lower(s) ==
    [i \in 1..Len(s) |->
        CASE s[i] = "G" -> "g" [] s[i] = "C" -> "c" [] s[i] = "R" -> "r"
          [] s[i] = "A" -> "a" [] s[i] = "S" -> "s" [] s[i] = "H" -> "h"
          [] OTHER -> s[i]]

\* word in headline: word is a substring of headline.
Contains(word, headline) ==
    \E k \in 1..(Len(headline) - Len(word) + 1) :
        \A j \in 1..Len(word) : headline[k + j - 1] = word[j]

\* sum(1 for headline in news_headlines for word in words
\*     if word.lower() in headline.lower())
CountHits(news_headlines, words) ==
    Cardinality({ hw \in (DOMAIN news_headlines) \X (DOMAIN words) :
                    Contains(lower(words[hw[2]]),
                             lower(news_headlines[hw[1]])) })

\* Variant of sentiment_label whose Bullish bound is inclusive.
sentiment_label_inclusive(positive_count, total) ==
    IF total = 0 THEN "Neutral"
    ELSE IF positive_count * 100 >= 60 * total THEN "Bullish"
    ELSE IF positive_count * 100 < 40 * total THEN "Bearish"
    ELSE "Neutral"

\* The label: score = positive_count / total * 100 compared with 60 and 40.
sentiment_label(positive_count, total) ==
    IF total = 0 THEN "Neutral"
    ELSE IF positive_count * 100 > 60 * total THEN "Bullish"
    ELSE IF positive_count * 100 < 40 * total THEN "Bearish"
    ELSE "Neutral"

analyze_sentiment_score(news_headlines) ==
    LET positive_count == CountHits(news_headlines, positive_words)
        negative_count == CountHits(news_headlines, negative_words)
        total == positive_count + negative_count
        score == IF total = 0 THEN Fix(50)
                 ELSE (positive_count * 100 * Scale) \div total
    IN  [sentiment |-> sentiment_label(positive_count, total),
         score |-> RoundTo(score, Scale \div 10),
         positive_signals |-> positive_count,
         negative_signals |-> negative_count,
         analysis |-> Len(news_headlines)]

\* ------------------------------------------------------------------------
\* Support and resistance, trend prediction (MLAnalyzer)
\* ------------------------------------------------------------------------

RECURSIVE sorted(_, _)
\* sorted(list) and sorted(list, reverse=True) on a list of floats.
sorted(list, reverse) ==
    IF list = <<>> THEN <<>>
    ELSE LET k == CHOOSE k \in DOMAIN list :
                    \A j \in DOMAIN list :
                        IF reverse THEN list[k] >= list[j]
                        ELSE list[k] <= list[j]
         IN  <<list[k]>>
             \o sorted(SubSeq(list, 1, k - 1) \o SubSeq(list, k + 1, Len(list)),
                       reverse)

\* The loop of calculate_support_resistance with window = 5: the positions
\* (1-based) range(window, len(prices) - window) visits, filtered by the test
\* of the highs (sign = 1) or of the lows (sign = -1), in loop order.
LocalExtrema(prices, sign) ==
    LET window == 5
        marked(i) == /\ \A j \in (i - window)..(i - 1) :
                          sign * prices[i] >= sign * prices[j]
                     /\ \A j \in (i + 1)..(i + window) :
                          sign * prices[i] >= sign * prices[j]
        RECURSIVE scan(_)
        scan(i) == IF i > Len(prices) - window THEN <<>>
                   ELSE (IF marked(i) THEN <<prices[i]>> ELSE <<>>)
                        \o scan(i + 1)
    IN  scan(window + 1)

\* calculate_support_resistance(prices, levels), levels >= 0.  The returned
\* dict reads prices[-1], which raises IndexError on an empty array.
calculate_support_resistance(prices, levels) ==
    LET highs == sorted(LocalExtrema(prices, 1), TRUE)
        lows == sorted(LocalExtrema(prices, -1), FALSE)
        n == Len(prices)
    IN  IF n = 0 THEN Raise("IndexError")
        ELSE [kind |-> "dict",
              resistance |-> [k \in 1..Min2(levels, Len(highs)) |->
                                Round5(highs[k])],
              support |-> [k \in 1..Min2(levels, Len(lows)) |->
                             Round5(lows[k])],
              current_price |-> prices[n],
              pivot |-> Round5(SumRange(prices, Max2(1, n - 19), n)
                               \div Min2(n, 20))]

\* predict_trend(prices, periods).  short_ma and long_ma are computed and
\* not used.  On an empty array the neutral branch reads prices[-1] and
\* raises IndexError.
predict_trend(prices, periods) ==
    LET n == Len(prices)
        lo == Max2(1, n - 19)
        momentum == IF n >= 10
                    THEN DivFix(prices[n] - prices[n - 9], prices[n - 9]) * 100
                    ELSE 0
        volatility == DivFix(StdDev(prices, lo, n, 0),
                             SumRange(prices, lo, n) \div (n - lo + 1)) * 100
        trend == IF momentum > Fix(2) THEN "bullish"
                 ELSE IF momentum < Fix(-2) THEN "bearish"
                 ELSE "neutral"
        prediction == IF trend = "neutral" THEN prices[n]
                      ELSE MulFix(prices[n], Scale + momentum \div 200)
        confidence == Min2(Fix(50) + Abs(momentum) * 5
                           + (Fix(100) - volatility) \div 5, Fix(75))
    IN  IF n = 0 THEN Raise("IndexError")
        ELSE [kind |-> "dict",
              current_trend |-> trend,
              predicted_price |-> Round5(prediction),
              momentum |-> Round2(momentum),
              volatility |-> Round2(volatility),
              confidence |-> RoundTo(confidence, Scale \div 10),
              periods |-> periods]

\* ------------------------------------------------------------------------
\* Weighted and Hull moving averages, pivot points (TechnicalIndicators)
\* ------------------------------------------------------------------------

\* pd.Series(data).rolling(period).apply(dot(x, weights) / weights.sum())
\* with weights 1..period, for period >= 1: undefined until the window is
\* full and wherever the window holds an undefined value.
wma(data, period) ==
    [i \in 1..Len(data) |->
        IF i < period THEN NaN
        ELSE IF \E j \in (i - period + 1)..i : IsNaN(data[j]) THEN NaN
        ELSE SumRange([j \in 1..period |-> j * data[i - period + j]],
                      1, period)
             \div ((period * (period + 1)) \div 2)]

\* Variant of sqrt_period that rounds the square root to the nearest integer.
sqrt_period_rounded(period) ==
    IF period - Isqrt(period) * Isqrt(period) > Isqrt(period)
    THEN Isqrt(period) + 1 ELSE Isqrt(period)

\* int(np.sqrt(period)): the integer part of the square root.
sqrt_period(period) == Isqrt(period)

\* hma(data, period) for period >= 2 (half_period = int(period / 2) >= 1).
hma(data, period) ==
    LET half_period == period \div 2
        wma_half == wma(data, half_period)
        wma_full == wma(data, period)
        raw == [i \in 1..Len(data) |->
                   Sub(Times(2, wma_half[i]), wma_full[i])]
    IN  wma(raw, sqrt_period(period))

\* Variant of pivot: the middle of the range.
pivot_midrange(high, low, close) == (high + low) \div 2

\* pivot = (high + low + close) / 3
pivot(high, low, close) == (high + low + close) \div 3

\* pivot_points(high, low, close) on scalars.
pivot_points(high, low, close) ==
    LET pp == pivot(high, low, close)
    IN  [R4 |-> high + 3 * (pp - low),
         R3 |-> high + 2 * (pp - low),
         R2 |-> pp + (high - low),
         R1 |-> 2 * pp - low,
         PP |-> pp,
         S1 |-> 2 * pp - high,
         S2 |-> pp - (high - low),
         S3 |-> low - 2 * (high - pp),
         S4 |-> low - 3 * (high - pp)]

RECURSIVE last_check_after_every_pair(_, _, _, _)
\* Variant of last_check_after that records a check for every pair analysed.
last_check_after_every_pair(pairs, fetch, t, lc) ==
    IF pairs = <<>> THEN lc
    ELSE last_check_after_every_pair(Tail(pairs), fetch, t,
                                     (Head(pairs) :> t) @@ lc)

RECURSIVE last_check_after(_, _, _, _)
\* self.last_check after the loop of check_all_pairs, from its value lc
\* before: `self.last_check[pair] = datetime.now()` under `if signal:`.
last_check_after(pairs, fetch, t, lc) ==
    IF pairs = <<>> THEN lc
    ELSE last_check_after(Tail(pairs), fetch, t,
            IF appended(analyze_pair(Head(pairs), fetch[Head(pairs)], t))
                  # <<>>
            THEN (Head(pairs) :> t) @@ lc ELSE lc)

\* The threshold run_check passes to get_opportunities.
run_check_min_confidence == Fix(70)

\* ------------------------------------------------------------------------
\* Notifications (OpenClawForexNotifier)
\* ------------------------------------------------------------------------

\* The entry send_alert appends to notification_history at clock reading t
\* (in hours); the formatted message is left out.
notification(signal, t) ==
    [type |-> "forex_signal",
     signal |-> [pair |-> signal.pair, type |-> signal.signal_type,
                 confidence |-> signal.confidence,
                 timestamp |-> signal.timestamp],
     channel |-> "telegram", created_at |-> t]

\* Whether the generator of already_notified reaches its third operand,
\* (datetime.now() - datetime.fromisoformat(n['created_at'])).hours, for some
\* entry: `and` evaluates it only for an entry of the same pair and type.
\* A timedelta has no attribute `hours`, so reaching it raises
\* AttributeError.
reads_hours(history, signal) ==
    \E k \in DOMAIN history :
        /\ history[k].signal.pair = signal.pair
        /\ history[k].signal.type = signal.signal_type

RECURSIVE notify_loop(_, _, _, _)
\* The loop of check_and_notify over the opportunities left, with the
\* history and the list `sent` so far.
notify_loop(left, history, sent, t) ==
    IF left = <<>>
    THEN [kind |-> "list", sent |-> sent, history |-> history]
    ELSE IF reads_hours(history, Head(left))
    THEN [kind |-> "raise", exc |-> "AttributeError", history |-> history]
    ELSE notify_loop(Tail(left), Append(history, notification(Head(left), t)),
                     Append(sent, Head(left)), t)

\* check_and_notify on the opportunities get_opportunities returned.
check_and_notify(found, history, t) == notify_loop(found, history, <<>>, t)

\* ------------------------------------------------------------------------
\* State
\* ------------------------------------------------------------------------

VARIABLES
    indicators,     \* classifier: the indicator snapshot handed to the rules
    rsi_val,        \* classifier: the RSI value handed to _generate_signal
    out,            \* classifier: the last rule applied and what it returned
    data,           \* analyze: the close series
    result,         \* analyze: what analyze(data) returned or raised
    pc,             \* aggregator: where the get_opportunities call stands
    pair_idx,       \* aggregator: position of the loop over monitored_pairs
    min_confidence, \* aggregator: the argument of get_opportunities
    feed,           \* aggregator: what the data collaborator produced, per pair
    signals,        \* aggregator: the local list of check_all_pairs
    last_check,     \* aggregator: self.last_check
    log,            \* aggregator: the lines analyze_pair logged
    trace,          \* aggregator: the locals of each analyze_pair call
    returned,       \* aggregator: what check_all_pairs returned
    opportunities,  \* aggregator: what get_opportunities returned
    now,            \* aggregator: the clock
    prices,         \* forecast: the price history
    periods,        \* forecast: the horizon
    forecast_out,   \* forecast: the returned dict
    bt_prices,      \* backtest: the price history
    bt_periods,     \* backtest: <<short_period, long_period>>
    bt_signals,     \* backtest: the local list `signals`
    bt_out,         \* backtest: the returned dict
    call,           \* single call: the function called and its arguments
    ret,            \* single call: what the call returned or raised
    forex_monitored_pairs, \* automation: self.forex.monitored_pairs
    self_signals,   \* automation: self.signals of the ForexAutomation object
    configured,     \* automation: the arguments of the last setup_alerts call
    notification_history, \* notifier: self.notification_history
    running,        \* monitoring: self.running
    check_interval, \* monitoring: self.check_interval
    jobs,           \* monitoring: the jobs of the schedule module
    start_pc,       \* monitoring: where the thread in start_monitoring stands
    stop_pc,        \* monitoring: where the thread in stop_monitoring stands
    pending         \* monitoring: the due jobs run_pending has collected

classifierVars == <<indicators, rsi_val, out>>
analyzeVars == <<data, result>>
aggregatorVars == <<pc, pair_idx, min_confidence, feed, signals, last_check,
                    log, trace, returned, opportunities, now>>
forecastVars == <<prices, periods, forecast_out>>
backtestVars == <<bt_prices, bt_periods, bt_signals, bt_out>>

callVars == <<call, ret>>
automationVars == <<forex_monitored_pairs, self_signals, configured,
                    notification_history>>
monitoringVars == <<running, check_interval, jobs, start_pc, stop_pc,
                    pending>>

vars == <<classifierVars, analyzeVars, aggregatorVars, forecastVars,
          backtestVars, callVars, automationVars, monitoringVars>>

NotCalled == [kind |-> "not called"]

NoSnapshot == [sma_20 |-> NaN, sma_50 |-> NaN, ema_12 |-> NaN, macd |-> NaN,
               macd_signal |-> NaN, bb_upper |-> NaN, bb_middle |-> NaN,
               bb_lower |-> NaN]

ClassifierIdle ==
    /\ indicators = NoSnapshot
    /\ rsi_val = NaN
    /\ out = NotCalled

AnalyzeIdle ==
    /\ data = <<>>
    /\ result = NotCalled

\* ForexAutomation.__init__: no signal, no check recorded; no call running.
AggregatorIdle ==
    /\ pc = "idle"
    /\ pair_idx = 0
    /\ min_confidence = 0
    /\ feed = <<>>
    /\ signals = <<>>
    /\ last_check = <<>>
    /\ log = <<>>
    /\ trace = <<>>
    /\ returned = <<>>
    /\ opportunities = <<>>
    /\ now = 0

ForecastIdle ==
    /\ prices = <<>>
    /\ periods = 0
    /\ forecast_out = NotCalled

BacktestIdle ==
    /\ bt_prices = <<>>
    /\ bt_periods = <<1, 1>>
    /\ bt_signals = <<>>
    /\ bt_out = NotCalled

NoCall == [fn |-> "none"]

CallIdle ==
    /\ call = NoCall
    /\ ret = NotCalled

\* OpenClawIntegration.__init__ / OpenClawForexNotifier.__init__: a fresh
\* ForexAutomation (the eight default pairs, no signal) and no notification;
\* setup_alerts has not been called.
AutomationIdle ==
    /\ forex_monitored_pairs = << "EUR/USD", "GBP/USD", "USD/JPY", "USD/CHF",
                                  "AUD/USD", "USD/CAD", "EUR/GBP", "USD/IDR" >>
    /\ self_signals = <<>>
    /\ configured = [kind |-> "None"]
    /\ notification_history = <<>>

\* ForexAutomation.__init__ (check_interval = 15, running = False), an empty
\* schedule, and no thread inside start_monitoring or stop_monitoring.
MonitoringIdle ==
    /\ running = FALSE
    /\ check_interval = 15
    /\ jobs = <<>>
    /\ start_pc = "not started"
    /\ stop_pc = "not called"
    /\ pending = <<>>

\* ------------------------------------------------------------------------
\* Classifier rules on indicator snapshots
\* ------------------------------------------------------------------------

\* Largest indicator value of a snapshot (in fixed-point units).
MaxLevel == 2

Levels == 0..MaxLevel

RsiLevels == {NaN, Fix(20), Fix(30), Fix(50), Fix(70), Fix(80)}

\* The snapshots analyze() can build: the EMAs and the MACD pair are defined
\* for every non-empty series; sma_50 is undefined whenever sma_20 is; the
\* middle band is sma_20 and the bands are undefined with it, else
\* lower <= middle <= upper.
Snapshots ==
    { s \in [sma_20 : Levels \cup {NaN}, sma_50 : Levels \cup {NaN},
             ema_12 : Levels, macd : Levels, macd_signal : Levels,
             bb_upper : Levels \cup {NaN}, bb_middle : Levels \cup {NaN},
             bb_lower : Levels \cup {NaN}] :
        /\ s.bb_middle = s.sma_20
        /\ IsNaN(s.sma_20) => IsNaN(s.sma_50)
        /\ IsNaN(s.sma_20) <=> IsNaN(s.bb_upper)
        /\ IsNaN(s.sma_20) <=> IsNaN(s.bb_lower)
        /\ ~IsNaN(s.sma_20) =>
              s.bb_lower <= s.bb_middle /\ s.bb_middle <= s.bb_upper }

InitClassifier ==
    /\ AutomationIdle
    /\ MonitoringIdle
    /\ CallIdle
    /\ indicators \in Snapshots
    /\ rsi_val \in RsiLevels
    /\ out = NotCalled
    /\ AnalyzeIdle
    /\ AggregatorIdle
    /\ ForecastIdle
    /\ BacktestIdle

DetermineTrend ==
    /\ out' = [kind |-> "determine_trend",
               trend |-> determine_trend(indicators)]
    /\ UNCHANGED <<automationVars, monitoringVars, callVars, indicators, rsi_val, analyzeVars, aggregatorVars,
                   forecastVars, backtestVars>>

GenerateSignal ==
    /\ out' = [kind |-> "generate_signal",
               signal |-> generate_signal(indicators, rsi_val).signal,
               confidence |-> generate_signal(indicators, rsi_val).confidence]
    /\ UNCHANGED <<automationVars, monitoringVars, callVars, indicators, rsi_val, analyzeVars, aggregatorVars,
                   forecastVars, backtestVars>>

NextClassifier == DetermineTrend \/ GenerateSignal

SpecClassifier == InitClassifier /\ [][NextClassifier]_vars

\* ------------------------------------------------------------------------
\* analyze() on close series
\* ------------------------------------------------------------------------

\* Longest close series handed to analyze().
MaxSeriesLen == 201

SeriesLens == {1, 2, 14, 19, 20, 50, 199, 200, MaxSeriesLen}
SeriesSteps == {-1000, 0, 1000, 2000}
SeriesBases == {1000000, 1085003}

\* base, base+step, base+2*step, ...: n values.
Ramp(n, base, step) == [i \in 1..n |-> base + (i - 1) * step]

AnalyzeInputs ==
    { Ramp(n, b, st) : n \in SeriesLens, b \in SeriesBases, st \in SeriesSteps }

InitAnalyze ==
    /\ AutomationIdle
    /\ MonitoringIdle
    /\ CallIdle
    /\ data \in AnalyzeInputs
    /\ result = NotCalled
    /\ ClassifierIdle
    /\ AggregatorIdle
    /\ ForecastIdle
    /\ BacktestIdle

Analyze ==
    /\ result = NotCalled
    /\ result' = analyze(data)
    /\ UNCHANGED <<automationVars, monitoringVars, callVars, classifierVars, data, aggregatorVars, forecastVars,
                   backtestVars>>

NextAnalyze == Analyze

SpecAnalyze == InitAnalyze /\ [][NextAnalyze]_vars

StrictlyIncreasing(x) == \A i \in 1..(Len(x) - 1) : x[i] < x[i + 1]

\* ------------------------------------------------------------------------
\* One get_opportunities call: check_all_pairs, then filter and sort
\* ------------------------------------------------------------------------

MonitoredPairs == << "EUR/USD", "GBP/USD", "USD/JPY", "USD/CHF",
                     "AUD/USD", "USD/CAD", "EUR/GBP", "USD/IDR" >>

\* How many of the monitored pairs a check cycle walks through.
NumPairs == 2

monitored_pairs == SubSeq(MonitoredPairs, 1, NumPairs)

RECURSIVE Displacement(_, _, _)
\* Where a walk made of the legs parts[j..] = <<count, step>> stands after k
\* steps.
Displacement(parts, k, j) ==
    IF j > Len(parts) \/ k <= 0 THEN 0
    ELSE parts[j][2] * Min2(k, parts[j][1])
         + Displacement(parts, k - parts[j][1], j + 1)

\* The rate series that starts at base and follows the legs.
Walk(base, parts) ==
    LET n == 1 + SumRange([j \in 1..Len(parts) |-> parts[j][1]], 1, Len(parts))
    IN  [i \in 1..n |-> base + Displacement(parts, i - 1, 1)] \o <<>>

\* What the data collaborator can produce for a pair: an exception before
\* any data is there, None, an empty frame, a frame without its high column,
\* and rate frames of 50, 30 and 5 rows.
FetchNames == { "import_error", "none", "empty", "no_high", "v_buy",
                "tiny_buy", "peak_sell", "slowing_rise", "ramp", "short5" }

WithoutHigh(df) ==
    DataFrame(df.rows, [c \in DOMAIN df.cols \ {"high"} |-> df.cols[c]])

Fetched(name) ==
    CASE name = "import_error" -> Raise("ImportError")
      [] name = "none" -> None
      [] name = "empty" -> RateFrame(<<>>)
      [] name = "no_high" -> WithoutHigh(RateFrame(Walk(1085003, <<<<49, 1000>>>>)))
      [] name = "v_buy" ->
            RateFrame(Walk(1085003, << <<21, -5000>>, <<12, 5000>>,
                                       <<1, 100>>, <<15, -100>> >>))
      [] name = "tiny_buy" ->
            RateFrame(Walk(1103, << <<21, -50>>, <<12, 50>>,
                                    <<1, 1>>, <<15, -1>> >>))
      [] name = "peak_sell" ->
            RateFrame(Walk(1085003, << <<21, 5000>>, <<12, -5000>>,
                                       <<1, -100>>, <<15, 100>> >>))
      [] name = "slowing_rise" ->
            RateFrame(Walk(1085003, << <<15, 2000>>, <<14, 100>> >>))
      [] name = "ramp" -> RateFrame(Walk(1085003, << <<49, 1000>> >>))
      [] name = "short5" -> RateFrame(Walk(1085003, << <<4, 1000>> >>))

\* The thresholds get_opportunities is called with: the hold confidence and
\* the default.
CallConfidences == { Fix(50), Fix(70) }

InitAggregator ==
    /\ AutomationIdle
    /\ MonitoringIdle
    /\ CallIdle
    /\ AggregatorIdle
    /\ ClassifierIdle
    /\ AnalyzeIdle
    /\ ForecastIdle
    /\ BacktestIdle

\* get_opportunities(mc) is entered and calls check_all_pairs.
StartCheck(mc) ==
    /\ pc = "idle"
    /\ pc' = "check_all_pairs"
    /\ min_confidence' = mc
    /\ pair_idx' = 1
    /\ signals' = <<>>
    /\ now' = now + 1
    /\ UNCHANGED <<feed, last_check, log, trace, returned, opportunities>>
    /\ UNCHANGED <<automationVars, monitoringVars, callVars, classifierVars, analyzeVars, forecastVars, backtestVars>>

\* What the loop of check_all_pairs does with the outcome r of
\* analyze_pair(pair).  An exception that leaves analyze_pair leaves
\* check_all_pairs and get_opportunities, too.
TakeResult(pair, r) ==
    IF r.kind = "raise"
    THEN /\ pc' = "raised"
         /\ UNCHANGED <<pair_idx, signals, last_check, log, trace>>
    ELSE /\ pc' = pc
         /\ pair_idx' = pair_idx + 1
         /\ log' = Append(log, r.log)
         /\ trace' = Append(trace, r.locals)
         /\ signals' = IF r.value.kind = "TradingSignal"
                       THEN Append(signals, r.value) ELSE signals
         /\ last_check' = IF r.value.kind = "TradingSignal"
                          THEN (pair :> now) @@ last_check ELSE last_check

\* One iteration of the loop of check_all_pairs.
AnalyzeNextPair ==
    /\ pc = "check_all_pairs"
    /\ pair_idx <= NumPairs
    /\ \E name \in FetchNames :
         /\ feed' = Append(feed, name)
         /\ TakeResult(monitored_pairs[pair_idx],
                       analyze_pair(monitored_pairs[pair_idx], Fetched(name),
                                    now))
    /\ UNCHANGED <<min_confidence, returned, opportunities, now>>
    /\ UNCHANGED <<automationVars, monitoringVars, callVars, classifierVars, analyzeVars, forecastVars, backtestVars>>

\* The loop is over: check_all_pairs returns its list.
CheckAllPairsReturn ==
    /\ pc = "check_all_pairs"
    /\ pair_idx > NumPairs
    /\ returned' = signals
    /\ pc' = "get_opportunities"
    /\ UNCHANGED <<pair_idx, min_confidence, feed, signals, last_check, log,
                   trace, opportunities, now>>
    /\ UNCHANGED <<automationVars, monitoringVars, callVars, classifierVars, analyzeVars, forecastVars, backtestVars>>

\* get_opportunities filters and sorts what check_all_pairs returned.
FilterAndSort ==
    /\ pc = "get_opportunities"
    /\ opportunities' = get_opportunities(returned, min_confidence)
    /\ pc' = "returned"
    /\ UNCHANGED <<pair_idx, min_confidence, feed, signals, last_check, log,
                   trace, returned, now>>
    /\ UNCHANGED <<automationVars, monitoringVars, callVars, classifierVars, analyzeVars, forecastVars, backtestVars>>

NextAggregator ==
    \/ \E mc \in CallConfidences : StartCheck(mc)
    \/ AnalyzeNextPair
    \/ CheckAllPairsReturn
    \/ FilterAndSort

SpecAggregator == InitAggregator /\ [][NextAggregator]_vars

\* ------------------------------------------------------------------------
\* get_opportunities on any list of TradingSignals
\* ------------------------------------------------------------------------

\* Longest list check_all_pairs hands back here.
MaxSignals == 3

\* A TradingSignal of which only pair, type and confidence matter.
StubSignal(pair, signal_type, confidence) ==
    [kind |-> "TradingSignal", pair |-> pair, signal_type |-> signal_type,
     confidence |-> confidence, entry_price |-> Fix(1), stop_loss |-> Fix(1),
     take_profit |-> Fix(1), reason |-> <<>>, indicators |-> <<>>,
     timestamp |-> 1, notified |-> FALSE]

\* A hold always carries confidence 50; a buy or a sell carries any.
StubKinds ==
    { <<"hold", Fix(50)>> }
    \cup ({"buy", "sell"} \X { Fix(55), Fix(78), Fix(91) })

\* One signal at most per monitored pair, in the order of the pairs; pairs
\* without a signal are left out.
StubLists ==
    UNION { { [i \in 1..n |-> StubSignal(MonitoredPairs[i], f[i][1], f[i][2])]
              \o <<>> : f \in [1..n -> StubKinds] } : n \in 0..MaxSignals }

StubConfidences == { Fix(50), Fix(70), Fix(78), Fix(95) }

InitOpportunities ==
    /\ AutomationIdle
    /\ MonitoringIdle
    /\ CallIdle
    /\ pc = "get_opportunities"
    /\ returned \in StubLists
    /\ min_confidence \in StubConfidences
    /\ pair_idx = 0
    /\ feed = <<>>
    /\ signals = <<>>
    /\ last_check = <<>>
    /\ log = <<>>
    /\ trace = <<>>
    /\ opportunities = <<>>
    /\ now = 1
    /\ ClassifierIdle
    /\ AnalyzeIdle
    /\ ForecastIdle
    /\ BacktestIdle

NextOpportunities == FilterAndSort

SpecOpportunities == InitOpportunities /\ [][NextOpportunities]_vars

\* ------------------------------------------------------------------------
\* forecast() on price histories
\* ------------------------------------------------------------------------

\* Longest price history handed to forecast().
MaxPrices == 16

\* Longest horizon.
MaxHorizon == 30

Horizons == { 0, 1, 7, MaxHorizon }

\* base and base + amp in turn.
Zigzag(n, base, amp) ==
    [i \in 1..n |-> IF i % 2 = 0 THEN base + amp ELSE base]

ForecastInputs ==
    { Ramp(n, b, st) \o <<>> :
        n \in 0..MaxPrices, b \in SeriesBases, st \in {-1000, 0, 1000} }
    \cup { Zigzag(n, b, 2000) \o <<>> : n \in 0..MaxPrices, b \in SeriesBases }

InitForecast ==
    /\ AutomationIdle
    /\ MonitoringIdle
    /\ CallIdle
    /\ prices \in ForecastInputs
    /\ periods \in Horizons
    /\ forecast_out = NotCalled
    /\ ClassifierIdle
    /\ AnalyzeIdle
    /\ AggregatorIdle
    /\ BacktestIdle

Forecast ==
    /\ forecast_out = NotCalled
    /\ forecast_out' = forecast(prices, periods)
    /\ UNCHANGED <<prices, periods>>
    /\ UNCHANGED <<automationVars, monitoringVars, callVars, classifierVars, analyzeVars, aggregatorVars, backtestVars>>

NextForecast == Forecast

SpecForecast == InitForecast /\ [][NextForecast]_vars

\* ------------------------------------------------------------------------
\* backtest_signal() on price histories
\* ------------------------------------------------------------------------

\* Longest price history handed to backtest_signal().
MaxBacktestLen == 6

\* Three price levels whose means over 2, 3 and 4 values are exact.
PriceLevels == { 1200000, 1201200, 1202400 }

\* <<short_period, long_period>>; the last pair has the short average
\* undefined at the first step.
PeriodPairs == { <<1, 2>>, <<2, 3>>, <<2, 4>>, <<4, 2>> }

BacktestInputs ==
    UNION { [1..n -> PriceLevels] : n \in 0..MaxBacktestLen }

InitBacktest ==
    /\ AutomationIdle
    /\ MonitoringIdle
    /\ CallIdle
    /\ bt_prices \in BacktestInputs
    /\ bt_periods \in PeriodPairs
    /\ bt_signals = <<>>
    /\ bt_out = NotCalled
    /\ ClassifierIdle
    /\ AnalyzeIdle
    /\ AggregatorIdle
    /\ ForecastIdle

Backtest ==
    /\ bt_out = NotCalled
    /\ bt_out' = backtest_signal(bt_prices, bt_periods[1], bt_periods[2])
    /\ bt_signals' = IF Len(bt_prices) < bt_periods[2] THEN <<>>
                     ELSE backtest_signals(bt_prices, bt_periods[1],
                                           bt_periods[2])
    /\ UNCHANGED <<bt_prices, bt_periods>>
    /\ UNCHANGED <<automationVars, monitoringVars, callVars, classifierVars, analyzeVars, aggregatorVars, forecastVars>>

NextBacktest == Backtest

SpecBacktest == InitBacktest /\ [][NextBacktest]_vars

\* ------------------------------------------------------------------------
\* One call of a windowed transform (sma, ema, rsi, bollinger_bands)
\* ------------------------------------------------------------------------

\* Longest series handed to a transform here.
MaxTransformLen == 4

\* Price levels of the series: 1.000000, 1.001000, 1.003000.
TransformLevels == {1000000, 1001000, 1003000}

TransformSeries ==
    UNION { [1..n -> TransformLevels] : n \in 0..MaxTransformLen }

TransformWindows == 1..3

TransformCalls ==
    [fn : {"sma", "ema", "rsi", "bollinger_bands"},
     data : TransformSeries, period : TransformWindows]

InitTransforms ==
    /\ AutomationIdle
    /\ MonitoringIdle
    /\ call \in TransformCalls
    /\ ret = NotCalled
    /\ ClassifierIdle
    /\ AnalyzeIdle
    /\ AggregatorIdle
    /\ ForecastIdle
    /\ BacktestIdle

Sma ==
    /\ call.fn = "sma"
    /\ ret = NotCalled
    /\ ret' = NdArray(sma(call.data, call.period) \o <<>>)
    /\ UNCHANGED <<automationVars, monitoringVars, call, classifierVars, analyzeVars, aggregatorVars,
                   forecastVars, backtestVars>>

Ema ==
    /\ call.fn = "ema"
    /\ ret = NotCalled
    /\ ret' = NdArray(ema(call.data, call.period))
    /\ UNCHANGED <<automationVars, monitoringVars, call, classifierVars, analyzeVars, aggregatorVars,
                   forecastVars, backtestVars>>

Rsi ==
    /\ call.fn = "rsi"
    /\ ret = NotCalled
    /\ ret' = NdArray(rsi(call.data, call.period) \o <<>>)
    /\ UNCHANGED <<automationVars, monitoringVars, call, classifierVars, analyzeVars, aggregatorVars,
                   forecastVars, backtestVars>>

\* bollinger_bands(data, period) with the default std_dev = 2.
BollingerBands ==
    /\ call.fn = "bollinger_bands"
    /\ ret = NotCalled
    /\ ret' = bollinger_bands(call.data, call.period, 2)
    /\ UNCHANGED <<automationVars, monitoringVars, call, classifierVars, analyzeVars, aggregatorVars,
                   forecastVars, backtestVars>>

NextTransforms == Sma \/ Ema \/ Rsi \/ BollingerBands

SpecTransforms == InitTransforms /\ [][NextTransforms]_vars

\* ------------------------------------------------------------------------
\* One call of analyze_sentiment_score
\* ------------------------------------------------------------------------

\* Longest list of headlines handed to analyze_sentiment_score here.
MaxHeadlines == 3

\* "Gains", "glossy", "strong rally", "calm", "fall, rise", "gain gain",
\* "CRASH".
Headlines ==
    {
      <<"G", "a", "i", "n", "s">>,
      <<"g", "l", "o", "s", "s", "y">>,
      <<"s", "t", "r", "o", "n", "g", " ", "r", "a", "l", "l", "y">>,
      <<"c", "a", "l", "m">>,
      <<"f", "a", "l", "l", ",", " ", "r", "i", "s", "e">>,
      <<"g", "a", "i", "n", " ", "g", "a", "i", "n">>,
      <<"C", "R", "A", "S", "H">> }

InitSentiment ==
    /\ AutomationIdle
    /\ MonitoringIdle
    /\ call \in [fn : {"analyze_sentiment_score"},
                 news_headlines :
                    UNION { [1..n -> Headlines] : n \in 0..MaxHeadlines }]
    /\ ret = NotCalled
    /\ ClassifierIdle
    /\ AnalyzeIdle
    /\ AggregatorIdle
    /\ ForecastIdle
    /\ BacktestIdle

AnalyzeSentimentScore ==
    /\ call.fn = "analyze_sentiment_score"
    /\ ret = NotCalled
    /\ ret' = analyze_sentiment_score(call.news_headlines)
    /\ UNCHANGED <<automationVars, monitoringVars, call, classifierVars, analyzeVars, aggregatorVars,
                   forecastVars, backtestVars>>

SpecSentiment == InitSentiment /\ [][AnalyzeSentimentScore]_vars

\* ------------------------------------------------------------------------
\* One call of calculate_support_resistance
\* ------------------------------------------------------------------------

\* Longest series of which every shape over two price levels is tried.
MaxExtremaLen == 12

\* Every series of 0, 10, 11, ... MaxExtremaLen prices over the two levels
\* 1.085003 and 1.086000, and three series of 17 prices with two or three
\* marked highs and lows.
ExtremaSeries ==
    UNION { [1..n -> {1085003, 1086000}] :
              n \in {0, 10} \cup 11..MaxExtremaLen }
    \cup { [i \in 1..17 |-> IF i = 12 THEN 1086000 ELSE 1085003],
           [i \in 1..17 |-> IF i = 12 THEN 1084000 ELSE 1085003],
           [i \in 1..17 |-> IF i = 6 THEN 1087000
                            ELSE IF i = 12 THEN 1086000
                            ELSE 1085003 - 1000 * ((i * i) % 5)] }

InitSupportResistance ==
    /\ AutomationIdle
    /\ MonitoringIdle
    /\ call \in [fn : {"calculate_support_resistance"},
                 prices : ExtremaSeries, levels : {1, 3}]
    /\ ret = NotCalled
    /\ ClassifierIdle
    /\ AnalyzeIdle
    /\ AggregatorIdle
    /\ ForecastIdle
    /\ BacktestIdle

CalculateSupportResistance ==
    /\ call.fn = "calculate_support_resistance"
    /\ ret = NotCalled
    /\ ret' = calculate_support_resistance(call.prices, call.levels)
    /\ UNCHANGED <<automationVars, monitoringVars, call, classifierVars, analyzeVars, aggregatorVars,
                   forecastVars, backtestVars>>

SpecSupportResistance ==
    InitSupportResistance /\ [][CalculateSupportResistance]_vars

\* ------------------------------------------------------------------------
\* One call of predict_trend
\* ------------------------------------------------------------------------

\* Longest price series handed to predict_trend here.
MaxTrendLen == 21

\* Positive price series: ramps of several lengths and slopes, and series of
\* 20 and more prices of 0.01 with a single price of 1.0 that is neither the
\* last price nor the tenth price from the end.
TrendSeries ==
    { Ramp(n, base, step) :
        n \in {0, 1, 5, 9, 10, 11, 20, MaxTrendLen},
        base \in {1085003, 1500000}, step \in {-3000, -1000, 0, 1000, 3000} }
    \cup UNION { { [i \in 1..n |-> IF i = k THEN 1000000 ELSE 10000] :
                      k \in 1..(n - 10) \cup (n - 8)..(n - 1) } :
                    n \in 20..MaxTrendLen }

InitPredictTrend ==
    /\ AutomationIdle
    /\ MonitoringIdle
    /\ call \in [fn : {"predict_trend"}, prices : TrendSeries,
                 periods : {10}]
    /\ ret = NotCalled
    /\ ClassifierIdle
    /\ AnalyzeIdle
    /\ AggregatorIdle
    /\ ForecastIdle
    /\ BacktestIdle

PredictTrend ==
    /\ call.fn = "predict_trend"
    /\ ret = NotCalled
    /\ ret' = predict_trend(call.prices, call.periods)
    /\ UNCHANGED <<automationVars, monitoringVars, call, classifierVars, analyzeVars, aggregatorVars,
                   forecastVars, backtestVars>>

SpecPredictTrend == InitPredictTrend /\ [][PredictTrend]_vars

\* ------------------------------------------------------------------------
\* One call of hma
\* ------------------------------------------------------------------------

\* Longest series handed to hma here.
MaxHmaLen == 11

InitHma ==
    /\ AutomationIdle
    /\ MonitoringIdle
    /\ call \in [fn : {"hma"},
                 data : { [i \in 1..n |-> base + step * ((i * i) % 7)] :
                            n \in 0..MaxHmaLen, base \in {1085003, 1500000},
                            step \in {-1000, 0, 1000, 2500} },
                 period : {2, 3, 4, 8, 9}]
    /\ ret = NotCalled
    /\ ClassifierIdle
    /\ AnalyzeIdle
    /\ AggregatorIdle
    /\ ForecastIdle
    /\ BacktestIdle

Hma ==
    /\ call.fn = "hma"
    /\ ret = NotCalled
    /\ ret' = NdArray(hma(call.data, call.period) \o <<>>)
    /\ UNCHANGED <<automationVars, monitoringVars, call, classifierVars, analyzeVars, aggregatorVars,
                   forecastVars, backtestVars>>

SpecHma == InitHma /\ [][Hma]_vars

\* ------------------------------------------------------------------------
\* One call of pivot_points
\* ------------------------------------------------------------------------

\* The previous high, low and close handed to pivot_points here.
PivotLevels == {1080000, 1085003, 1090000, 1100000, 1100001}

InitPivotPoints ==
    /\ AutomationIdle
    /\ MonitoringIdle
    /\ call \in [fn : {"pivot_points"}, high : PivotLevels,
                 low : PivotLevels, close : PivotLevels]
    /\ ret = NotCalled
    /\ ClassifierIdle
    /\ AnalyzeIdle
    /\ AggregatorIdle
    /\ ForecastIdle
    /\ BacktestIdle

PivotPoints ==
    /\ call.fn = "pivot_points"
    /\ ret = NotCalled
    /\ ret' = pivot_points(call.high, call.low, call.close)
    /\ UNCHANGED <<automationVars, monitoringVars, call, classifierVars, analyzeVars, aggregatorVars,
                   forecastVars, backtestVars>>

SpecPivotPoints == InitPivotPoints /\ [][PivotPoints]_vars

\* ------------------------------------------------------------------------
\* One get_opportunities call over a chosen list of monitored pairs
\* ------------------------------------------------------------------------

\* Longest list of monitored pairs tried here.
MaxMonitored == 2

\* The lists of at most MaxMonitored different pairs out of the first three.
MonitoredLists ==
    { l \in UNION { [1..n -> { MonitoredPairs[k] : k \in 1..3 }] :
                      n \in 0..MaxMonitored } :
        \A i, j \in DOMAIN l : i # j => l[i] # l[j] }

InitAnyOrder ==
    /\ AutomationIdle
    /\ MonitoringIdle
    /\ call \in [fn : {"get_opportunities"},
                 monitored_pairs : MonitoredLists,
                 feed : [{ MonitoredPairs[k] : k \in 1..3 } ->
                           {"import_error", "v_buy", "peak_sell", "ramp"}],
                 min_confidence : {Fix(70)}]
    /\ ret = NotCalled
    /\ ClassifierIdle
    /\ AnalyzeIdle
    /\ AggregatorIdle
    /\ ForecastIdle
    /\ BacktestIdle

\* get_opportunities on the chosen list: the signals check_all_pairs returns
\* and the opportunities.
GetOpportunities ==
    /\ call.fn = "get_opportunities"
    /\ ret = NotCalled
    /\ ret' = [signals |->
                 check_all_pairs(call.monitored_pairs,
                                 [p \in DOMAIN call.feed |->
                                    Fetched(call.feed[p])], 1),
               opportunities |->
                 get_opportunities(
                     check_all_pairs(call.monitored_pairs,
                                     [p \in DOMAIN call.feed |->
                                        Fetched(call.feed[p])], 1),
                     call.min_confidence)]
    /\ UNCHANGED <<automationVars, monitoringVars, call, classifierVars, analyzeVars, aggregatorVars,
                   forecastVars, backtestVars>>

SpecAnyOrder == InitAnyOrder /\ [][GetOpportunities]_vars

\* ------------------------------------------------------------------------
\* OpenClawIntegration: setup_alerts and run_check, call after call
\* ------------------------------------------------------------------------

\* How many run_check calls are followed.
MaxChecks == 2

\* The thresholds setup_alerts is given: the one of main() and a higher one.
AlertConfidences == { Fix(75), Fix(90) }

\* The pairs setup_alerts is given: none, two pairs in another order than
\* the default one, and the list of main().
AlertPairs ==
    { <<>>, << "GBP/USD", "EUR/USD" >>,
      << "EUR/USD", "GBP/USD", "USD/JPY", "USD/IDR" >> }

\* What the data collaborator produces during one check: rates for EUR/USD
\* and GBP/USD (or a failure for the latter), nothing for the other pairs.
Markets ==
    { [p \in { MonitoredPairs[k] : k \in DOMAIN MonitoredPairs } |->
          IF p = "EUR/USD" THEN e ELSE IF p = "GBP/USD" THEN g ELSE "none"] :
        e \in {"v_buy", "peak_sell", "ramp"}, g \in {"v_buy", "import_error"} }

FetchedFrom(market) == [p \in DOMAIN market |-> Fetched(market[p])]

InitAlerts ==
    /\ AutomationIdle
    /\ MonitoringIdle
    /\ CallIdle
    /\ ClassifierIdle
    /\ AnalyzeIdle
    /\ AggregatorIdle
    /\ ForecastIdle
    /\ BacktestIdle

\* setup_alerts(min_confidence, pairs): the pairs replace the monitored ones
\* when the list is not empty; min_confidence is logged and not stored.
SetupAlerts ==
    /\ \E mc \in AlertConfidences, p \in AlertPairs :
         /\ call' = [fn |-> "setup_alerts", min_confidence |-> mc, pairs |-> p]
         /\ configured' = [kind |-> "setup_alerts", min_confidence |-> mc,
                           pairs |-> p]
         /\ forex_monitored_pairs' = IF p # <<>> THEN p
                                     ELSE forex_monitored_pairs
    /\ ret' = None
    /\ UNCHANGED <<self_signals, notification_history, monitoringVars,
                   classifierVars, analyzeVars, aggregatorVars, forecastVars,
                   backtestVars>>

\* run_check at clock reading t with the market `market`: found is what
\* check_all_pairs returns.
RunCheckAt(market, t, found) ==
    /\ call' = [fn |-> "run_check", market |-> market]
    /\ ret' = [kind |-> "list", analysed |-> forex_monitored_pairs,
               signals |-> found,
               opportunities |->
                   get_opportunities(found, run_check_min_confidence)]
    /\ last_check' = last_check_after(forex_monitored_pairs,
                                      FetchedFrom(market), t, last_check)
    /\ now' = t

\* run_check(): self.forex.get_opportunities(min_confidence=70).
RunCheck ==
    /\ now < MaxChecks
    /\ \E market \in Markets :
         RunCheckAt(market, now + 1,
                    check_all_pairs(forex_monitored_pairs,
                                    FetchedFrom(market), now + 1))
    /\ UNCHANGED <<automationVars, monitoringVars, classifierVars,
                   analyzeVars, forecastVars, backtestVars, pc, pair_idx,
                   min_confidence, feed, signals, log, trace, returned,
                   opportunities>>

NextAlerts == SetupAlerts \/ RunCheck

SpecAlerts == InitAlerts /\ [][NextAlerts]_vars

\* ------------------------------------------------------------------------
\* OpenClawForexNotifier: check_and_notify, call after call
\* ------------------------------------------------------------------------

\* The clock runs in hours and stops here.
MaxHours == 36

\* The hours that pass before a check_and_notify call.
HoursBetweenCalls == {12, 24}

InitNotifier ==
    /\ AutomationIdle
    /\ MonitoringIdle
    /\ CallIdle
    /\ ClassifierIdle
    /\ AnalyzeIdle
    /\ AggregatorIdle
    /\ ForecastIdle
    /\ BacktestIdle

\* check_and_notify(mc) at clock reading t: found is what check_all_pairs
\* returns, done is what the loop over the opportunities leaves.
CheckAndNotifyAt(mc, market, t, found, done) ==
    /\ call' = [fn |-> "check_and_notify", min_confidence |-> mc,
                market |-> market]
    /\ ret' = IF done.kind = "raise" THEN Raise(done.exc)
              ELSE [kind |-> "list", sent |-> done.sent,
                    opportunities |-> found]
    /\ notification_history' = done.history
    /\ last_check' = last_check_after(forex_monitored_pairs,
                                      FetchedFrom(market), t, last_check)
    /\ now' = t

CheckAndNotifyOn(mc, market, t, signals_found) ==
    CheckAndNotifyAt(mc, market, t, get_opportunities(signals_found, mc),
                     check_and_notify(get_opportunities(signals_found, mc),
                                      notification_history, t))

CheckAndNotify ==
    /\ \E mc \in AlertConfidences, market \in Markets,
          h \in HoursBetweenCalls :
         /\ now + h <= MaxHours
         /\ CheckAndNotifyOn(mc, market, now + h,
                             check_all_pairs(forex_monitored_pairs,
                                             FetchedFrom(market), now + h))
    /\ UNCHANGED <<forex_monitored_pairs, self_signals, configured,
                   monitoringVars, classifierVars, analyzeVars, forecastVars,
                   backtestVars, pc, pair_idx, min_confidence, feed, signals,
                   log, trace, returned, opportunities>>

SpecNotifier == InitNotifier /\ [][CheckAndNotify]_vars

\* ------------------------------------------------------------------------
\* start_monitoring in one thread, stop_monitoring in another
\* ------------------------------------------------------------------------

\* schedule.every(n).minutes: a job is due n * 60 seconds after it was
\* scheduled or last run; the loop sleeps one second per round.
SecondsPerMinute == 60

\* The clock reading (in seconds) at which the clock of the model stops;
\* the loop goes on.
MaxSeconds == 125

\* What the data collaborator produces during a scheduled check.
ScheduledMarkets ==
    { market \in Markets : market["GBP/USD"] = "import_error"
                           /\ market["EUR/USD"] \in {"v_buy", "ramp"} }

\* Both threads have been started; neither has executed a statement.
InitMonitoring ==
    /\ AutomationIdle
    /\ running = FALSE
    /\ check_interval = 15
    /\ jobs = <<>>
    /\ pending = <<>>
    /\ start_pc = "set_interval"
    /\ stop_pc = "clear_running"
    /\ call \in [fn : {"start_monitoring"}, interval_minutes : {1, 2}]
    /\ ret = NotCalled
    /\ ClassifierIdle
    /\ AnalyzeIdle
    /\ AggregatorIdle
    /\ ForecastIdle
    /\ BacktestIdle

\* What a step of either thread leaves alone besides the monitoring state.
MonitoringFrame ==
    UNCHANGED <<automationVars, callVars, classifierVars, analyzeVars,
                forecastVars, backtestVars, pc, pair_idx, min_confidence,
                feed, signals, log, trace, returned, opportunities>>

\* self.check_interval = interval_minutes
SetInterval ==
    /\ start_pc = "set_interval"
    /\ check_interval' = call.interval_minutes
    /\ start_pc' = "set_running"
    /\ UNCHANGED <<running, jobs, pending, stop_pc, last_check, now>>
    /\ MonitoringFrame

\* self.running = True
SetRunning ==
    /\ start_pc = "set_running"
    /\ running' = TRUE
    /\ start_pc' = "schedule_job"
    /\ UNCHANGED <<check_interval, jobs, pending, stop_pc, last_check, now>>
    /\ MonitoringFrame

\* schedule.every(interval_minutes).minutes.do(self.check_all_pairs)
ScheduleJob ==
    /\ start_pc = "schedule_job"
    /\ jobs' = Append(jobs, [interval |-> call.interval_minutes,
                             due_in |-> call.interval_minutes
                                        * SecondsPerMinute])
    /\ start_pc' = "test_running"
    /\ UNCHANGED <<running, check_interval, pending, stop_pc, last_check, now>>
    /\ MonitoringFrame

\* while self.running:
TestRunning ==
    /\ start_pc = "test_running"
    /\ start_pc' = IF running THEN "run_pending" ELSE "exited"
    /\ UNCHANGED <<running, check_interval, jobs, pending, stop_pc,
                   last_check, now>>
    /\ MonitoringFrame

\* schedule.run_pending() collects the jobs that are due, then runs them.
RunPending ==
    /\ start_pc = "run_pending"
    /\ pending' = SelectSeq(jobs, LAMBDA job : job.due_in = 0)
    /\ start_pc' = "run_jobs"
    /\ UNCHANGED <<running, check_interval, jobs, stop_pc, last_check, now>>
    /\ MonitoringFrame

\* run_pending runs one collected job, a check_all_pairs call, and sets the
\* job's next run; with no job left it returns.
RunJob ==
    /\ start_pc = "run_jobs"
    /\ IF pending = <<>>
       THEN /\ start_pc' = "sleep"
            /\ UNCHANGED <<pending, jobs, last_check>>
       ELSE /\ start_pc' = start_pc
            /\ pending' = Tail(pending)
            /\ jobs' = [k \in DOMAIN jobs |->
                          [jobs[k] EXCEPT !.due_in = jobs[k].interval
                                                     * SecondsPerMinute]]
            /\ \E market \in ScheduledMarkets :
                 last_check' = last_check_after(forex_monitored_pairs,
                                                FetchedFrom(market), now,
                                                last_check)
    /\ UNCHANGED <<running, check_interval, stop_pc, now>>
    /\ MonitoringFrame

\* time.sleep(1)
Sleep ==
    /\ start_pc = "sleep"
    /\ now' = Min2(now + 1, MaxSeconds)
    /\ jobs' = [k \in DOMAIN jobs |->
                  [jobs[k] EXCEPT !.due_in = Max2(jobs[k].due_in - 1, 0)]]
    /\ start_pc' = "test_running"
    /\ UNCHANGED <<running, check_interval, pending, stop_pc, last_check>>
    /\ MonitoringFrame

\* stop_monitoring: self.running = False
ClearRunning ==
    /\ stop_pc = "clear_running"
    /\ running' = FALSE
    /\ stop_pc' = "clear_schedule"
    /\ UNCHANGED <<check_interval, jobs, pending, start_pc, last_check, now>>
    /\ MonitoringFrame

\* stop_monitoring: schedule.clear(), and the return.
ClearSchedule ==
    /\ stop_pc = "clear_schedule"
    /\ jobs' = <<>>
    /\ stop_pc' = "returned"
    /\ UNCHANGED <<running, check_interval, pending, start_pc, last_check, now>>
    /\ MonitoringFrame

StartMonitoring ==
    \/ SetInterval
    \/ SetRunning
    \/ ScheduleJob
    \/ TestRunning
    \/ RunPending
    \/ RunJob
    \/ Sleep

StopMonitoring == ClearRunning \/ ClearSchedule

\* Each thread that can take a step eventually takes one.
SpecMonitoring ==
    /\ InitMonitoring
    /\ [][StartMonitoring \/ StopMonitoring]_vars
    /\ WF_vars(StartMonitoring)
    /\ WF_vars(StopMonitoring)

\* ------------------------------------------------------------------------
\* Claims
\* ------------------------------------------------------------------------

\* The score of claim C1: the Bollinger term compares the price with the
\* bands.  The price the classifier works with is ema_12 (its "Price vs SMA"
\* term).
ClaimedScore(ind, rsi_v) ==
    (IF Lt(rsi_v, Fix(30)) THEN 30 ELSE IF Gt(rsi_v, Fix(70)) THEN -30 ELSE 0)
    + (IF Gt(ind.macd, ind.macd_signal) THEN 20 ELSE -20)
    + (IF Gt(ind.ema_12, ind.sma_20) THEN 20 ELSE -20)
    + (IF Lt(ind.ema_12, ind.bb_lower) THEN 15
       ELSE IF Gt(ind.ema_12, ind.bb_upper) THEN -15 ELSE 0)

\* C1 (as claimed): _generate_signal returns BUY with confidence
\* min(score, 95) when score > 40, SELL with min(|score|, 95) when
\* score < -40 and HOLD with 50 otherwise, where the score adds +15 when the
\* price is below the lower Bollinger band and -15 when it is above the
\* upper band.
C1_ScoreWithPriceVsBands ==
    out.kind = "generate_signal" =>
        LET score == ClaimedScore(indicators, rsi_val)
        IN  /\ score > 40 =>
                out.signal = "buy" /\ out.confidence = Min2(score, 95)
            /\ score < -40 =>
                out.signal = "sell" /\ out.confidence = Min2(Abs(score), 95)
            /\ (score <= 40 /\ score >= -40) =>
                out.signal = "hold" /\ out.confidence = 50

\* C2: _determine_trend casts the three votes (EMA12 vs SMA20, SMA20 vs
\* SMA50, MACD vs signal line) and returns the majority: bullish when the
\* bullish votes outnumber the bearish ones, bearish in the opposite case,
\* neutral on a tie.
C2_TrendIsMajority ==
    out.kind = "determine_trend" =>
        LET votes == { <<1, Gt(indicators.ema_12, indicators.sma_20)>>,
                       <<2, Gt(indicators.sma_20, indicators.sma_50)>>,
                       <<3, Gt(indicators.macd, indicators.macd_signal)>> }
            bull == Cardinality({ v \in votes : v[2] })
            bear == Cardinality({ v \in votes : ~v[2] })
        IN  /\ bull > bear => out.trend = "bullish"
            /\ bear > bull => out.trend = "bearish"
            /\ bull = bear => out.trend = "neutral"

\* C2 witness: a 2-to-1 bullish majority whose bearish vote comes from an
\* undefined SMA50.
C2_Witness ==
    /\ out.kind = "determine_trend"
    /\ out.trend = "bullish"
    /\ Gt(indicators.ema_12, indicators.sma_20)
    /\ IsNaN(indicators.sma_50)
    /\ Gt(indicators.macd, indicators.macd_signal)

\* C3 (as claimed): for every strictly increasing close series of length
\* >= 200, analyze returns an AnalysisResult with trend BULLISH and signal
\* BUY (score > 40) with confidence at most 95.
C3_IncreasingSeriesIsBuy ==
    (result # NotCalled /\ Len(data) >= 200 /\ StrictlyIncreasing(data)) =>
        /\ result.kind = "AnalysisResult"
        /\ result.trend = "bullish"
        /\ result.signal = "buy"
        /\ result.confidence <= 95
Range(list) == { list[k] : k \in DOMAIN list }

NonIncreasing(list) ==
    \A k \in 1..(Len(list) - 1) : list[k].confidence >= list[k + 1].confidence

Confidences(list) == [k \in 1..Len(list) |-> list[k].confidence] \o <<>>

\* C4 (as claimed): get_opportunities returns exactly the signals of the
\* check cycle whose confidence is >= min_confidence, every such signal and
\* no other, ordered by non-increasing confidence.
C4_AllAtLeastMinConfidence ==
    pc = "returned" =>
        /\ Range(opportunities) =
              { s \in Range(returned) : s.confidence >= min_confidence }
        /\ NonIncreasing(opportunities)

\* C4 (amended): get_opportunities returns exactly the buy and sell signals
\* of the check cycle whose confidence is >= min_confidence (a hold is never
\* returned, whatever the threshold), each once, ordered by non-increasing
\* confidence.
C4_NonHoldAtLeastMinConfidence ==
    pc = "returned" =>
        /\ Range(opportunities) =
              { s \in Range(returned) :
                  s.confidence >= min_confidence /\ s.signal_type # "hold" }
        /\ Len(opportunities) = Cardinality(Range(opportunities))
        /\ NonIncreasing(opportunities)

\* C4 witness: confidences [55, 91, 78] with min_confidence = 70 came back
\* as [91, 78].
C4_Witness ==
    /\ pc = "returned"
    /\ min_confidence = Fix(70)
    /\ Confidences(returned) = <<Fix(55), Fix(91), Fix(78)>>
    /\ Confidences(opportunities) = <<Fix(91), Fix(78)>>

\* A fetch the analysis can work with: a frame with at least one row and
\* the close, high and low columns.
Usable(name) ==
    LET f == Fetched(name)
    IN  /\ f.kind = "DataFrame"
        /\ f.rows > 0
        /\ {"close", "high", "low"} \subseteq DOMAIN f.cols

RECURSIVE SucceededPairs(_)
\* The pairs among the first k whose fetch was usable, in order.
SucceededPairs(k) ==
    IF k = 0 THEN <<>>
    ELSE IF Usable(feed[k])
         THEN Append(SucceededPairs(k - 1), monitored_pairs[k])
    ELSE SucceededPairs(k - 1)

PairsOf(list) == [k \in 1..Len(list) |-> list[k].pair] \o <<>>

\* C5: check_all_pairs never aborts the batch: no exception leaves it, a
\* pair whose analysis fails (exception, no data) is skipped, every later
\* pair is still analysed, and the call returns the signals of exactly the
\* pairs that succeeded.
C5_BatchNeverAborts ==
    /\ pc # "raised"
    /\ pc = "check_all_pairs" =>
          /\ Len(feed) = pair_idx - 1
          /\ PairsOf(signals) = SucceededPairs(Len(feed))
    /\ pc \in {"get_opportunities", "returned"} =>
          /\ Len(feed) = NumPairs
          /\ PairsOf(returned) = SucceededPairs(NumPairs)

\* C5 witness: the analysis of the first pair failed with an exception, the
\* next pair was analysed all the same and is the only signal returned.
C5_Witness ==
    /\ pc = "get_opportunities"
    /\ feed[1] \in {"import_error", "no_high"}
    /\ log[1].level = "error"
    /\ Usable(feed[2])
    /\ PairsOf(returned) = <<monitored_pairs[2]>>

\* The signal built from the locals trace[k].
SignalOf(k) == CHOOSE s \in Range(signals) : s.pair = monitored_pairs[k]

Analysed == { k \in 1..Len(trace) : trace[k].kind = "locals" }

\* The votes of claim C6 in tenths of a point, from the raw indicator values.
BuyVotes(l) ==
    (IF Lt(l.rsi, Fix(30)) THEN 20 ELSE 0)
    + (IF Gt(l.sma_20, l.sma_50) THEN 10 ELSE 0)
    + (IF Gt(l.macd, l.signal_line) THEN 10 ELSE 0)
    + (IF Gt(l.histogram, 0) THEN 5 ELSE 0)

SellVotes(l) ==
    (IF Gt(l.rsi, Fix(70)) THEN 20 ELSE 0)
    + (IF Gt(l.sma_20, l.sma_50) THEN 0 ELSE 10)
    + (IF Gt(l.macd, l.signal_line) THEN 0 ELSE 10)
    + (IF Gt(l.histogram, 0) THEN 0 ELSE 5)

\* C6: analyze_pair scores buy votes (2 if RSI<30, 1 if SMA20>SMA50, 1 if
\* MACD>signal line, 0.5 if histogram>0) and sell votes (2 if RSI>70, and 1,
\* 1, 0.5 for the opposite branches); the signal is buy iff buy_score >= 4,
\* sell iff buy_score < 4 and sell_score >= 4, otherwise hold with confidence
\* 50; a buy or sell has confidence min(60 + score*5, 90).
C6_VotesDecideSignal ==
    \A k \in Analysed :
        LET b == BuyVotes(trace[k])
            s == SellVotes(trace[k])
            sig == SignalOf(k)
        IN  /\ sig.signal_type = "buy" <=> b >= 40
            /\ sig.signal_type = "sell" <=> (b < 40 /\ s >= 40)
            /\ sig.signal_type = "hold" <=> (b < 40 /\ s < 40)
            /\ sig.signal_type = "hold" => sig.confidence = Fix(50)
            /\ sig.signal_type = "buy" =>
                  sig.confidence = Min2(Fix(60) + b * 500000, Fix(90))
            /\ sig.signal_type = "sell" =>
                  sig.confidence = Min2(Fix(60) + s * 500000, Fix(90))

\* C6 witness: one check cycle produced a buy with 4.5 buy points and a
\* hold with 2.5 buy points and 2 sell points.
C6_Witness ==
    /\ pc = "returned"
    /\ \E k \in Analysed :
          /\ SignalOf(k).signal_type = "buy"
          /\ BuyVotes(trace[k]) = 45
          /\ SignalOf(k).confidence = 82500000
    /\ \E k \in Analysed :
          /\ SignalOf(k).signal_type = "hold"
          /\ BuyVotes(trace[k]) = 25
          /\ SellVotes(trace[k]) = 20

\* The rounding step of round(x, 5).
RoundingStep == Scale \div 100000

\* C7 (as claimed): a buy has stop_loss = entry - 2*ATR and take_profit =
\* entry + 3*ATR, a sell has stop_loss = entry + 2*ATR and take_profit =
\* entry - 3*ATR, a hold has stop_loss = take_profit = entry; hence whenever
\* ATR > 0 a buy has stop_loss < entry < take_profit and a sell has
\* take_profit < entry < stop_loss.
C7_ExactStopLevels ==
    \A k \in Analysed :
        LET a == trace[k].atr
            sig == SignalOf(k)
            e == sig.entry_price
        IN  /\ sig.signal_type = "buy" =>
                /\ sig.stop_loss = Sub(e, Times(2, a))
                /\ sig.take_profit = Add(e, Times(3, a))
                /\ Gt(a, 0) => sig.stop_loss < e /\ e < sig.take_profit
            /\ sig.signal_type = "sell" =>
                /\ sig.stop_loss = Add(e, Times(2, a))
                /\ sig.take_profit = Sub(e, Times(3, a))
                /\ Gt(a, 0) => sig.take_profit < e /\ e < sig.stop_loss
            /\ sig.signal_type = "hold" =>
                sig.stop_loss = e /\ sig.take_profit = e

\* C7 (amended): the stop and the target are rounded to 5 decimals while the
\* entry is not: a buy has stop_loss = round(entry - 2*ATR, 5) and
\* take_profit = round(entry + 3*ATR, 5), a sell has stop_loss =
\* round(entry + 2*ATR, 5) and take_profit = round(entry - 3*ATR, 5), a hold
\* has stop_loss = take_profit = round(entry, 5); whenever 2*ATR exceeds half
\* a rounding step (0.000005) a buy has stop_loss < entry < take_profit and a
\* sell has take_profit < entry < stop_loss.
C7_RoundedStopLevels ==
    \A k \in Analysed :
        LET a == trace[k].atr
            sig == SignalOf(k)
            e == sig.entry_price
            wide == Gt(Times(4, a), RoundingStep)
        IN  /\ sig.signal_type = "buy" =>
                /\ sig.stop_loss = Round5(Sub(e, Times(2, a)))
                /\ sig.take_profit = Round5(Add(e, Times(3, a)))
                /\ wide => sig.stop_loss < e /\ e < sig.take_profit
            /\ sig.signal_type = "sell" =>
                /\ sig.stop_loss = Round5(Add(e, Times(2, a)))
                /\ sig.take_profit = Round5(Sub(e, Times(3, a)))
                /\ wide => sig.take_profit < e /\ e < sig.stop_loss
            /\ sig.signal_type = "hold" =>
                sig.stop_loss = Round5(e) /\ sig.take_profit = Round5(e)

\* C7 witness: one check cycle built a buy around an entry that is not a
\* multiple of 0.00001, with a positive ATR, and a sell.
C7_Witness ==
    /\ pc = "returned"
    /\ \E k \in Analysed :
          /\ SignalOf(k).signal_type = "buy"
          /\ Gt(Times(4, trace[k].atr), RoundingStep)
          /\ SignalOf(k).entry_price # Round5(SignalOf(k).entry_price)
          /\ SignalOf(k).stop_loss < SignalOf(k).entry_price
    /\ \E k \in Analysed :
          /\ SignalOf(k).signal_type = "sell"
          /\ SignalOf(k).take_profit < SignalOf(k).entry_price

\* The two moving averages of the backtest at index j.
ShortMA(j) == RollingMean(bt_prices, bt_periods[1])[j]
LongMA(j) == RollingMean(bt_prices, bt_periods[2])[j]

Above(j) == Gt(ShortMA(j), LongMA(j))
Below(j) == Lt(ShortMA(j), LongMA(j))

\* The position before step k, read off the signals emitted so far: long
\* from a BUY to the next SELL, flat otherwise.
LongBefore(k) ==
    \E i \in 1..(k - 1) :
        /\ bt_signals[i] = "BUY"
        /\ \A m \in (i + 1)..(k - 1) : bt_signals[m] # "SELL"

\* Step k of the loop looks at the index bt_periods[2] + k.
StepIndex(k) == bt_periods[2] + k

\* The counts and the periods of the result.
BacktestReport ==
    bt_out # NotCalled /\ Len(bt_prices) >= bt_periods[2] =>
        /\ Len(bt_signals) = Len(bt_prices) - bt_periods[2]
        /\ bt_out.buy_signals = Count(bt_signals, "BUY")
        /\ bt_out.sell_signals = Count(bt_signals, "SELL")
        /\ bt_out.hold_signals = Count(bt_signals, "HOLD")
        /\ bt_out.short_period = bt_periods[1]
        /\ bt_out.long_period = bt_periods[2]

\* C8 (as claimed): backtest_signal emits BUY at a step iff the position is
\* flat and the short MA crosses above the long MA at that step (not above
\* at the previous step, above now), SELL iff the position is long and the
\* short MA crosses below the long MA at that step, HOLD at every other
\* step; the result reports the three counts and the two periods.
C8_SignalsAreCrossings ==
    /\ BacktestReport
    /\ \A k \in 1..Len(bt_signals) :
        LET j == StepIndex(k)
            buy == ~LongBefore(k) /\ Above(j) /\ ~Above(j - 1)
            sell == LongBefore(k) /\ Below(j) /\ ~Below(j - 1)
        IN  /\ bt_signals[k] = "BUY" <=> buy
            /\ bt_signals[k] = "SELL" <=> sell
            /\ bt_signals[k] = "HOLD" <=> (~buy /\ ~sell)

\* C8 (amended): backtest_signal emits BUY at a step iff the position is
\* flat and the short MA is above the long MA at that step, which is a
\* crossing (not above at the previous step) at every step but the first:
\* the first step emits BUY even when the short MA was already above the
\* long MA one index earlier.  It emits SELL iff the position is long and the
\* short MA crosses below the long MA at that step, HOLD at every other step;
\* the result reports the three counts and the two periods.
C8_BuyOnFirstStepWithoutCrossing ==
    /\ BacktestReport
    /\ \A k \in 1..Len(bt_signals) :
        LET j == StepIndex(k)
            buy == ~LongBefore(k) /\ Above(j) /\ (k > 1 => ~Above(j - 1))
            sell == LongBefore(k) /\ Below(j) /\ ~Below(j - 1)
        IN  /\ bt_signals[k] = "BUY" <=> buy
            /\ bt_signals[k] = "SELL" <=> sell
            /\ bt_signals[k] = "HOLD" <=> (~buy /\ ~sell)
            /\ (~LongBefore(k) /\ Above(j) /\ k > 1) => ~Above(j - 1)

\* C8 witness: a backtest whose first step emitted BUY with the short MA
\* already above the long MA one index earlier, and which later emitted SELL
\* and BUY again on crossings.
C8_Witness ==
    /\ bt_out # NotCalled
    /\ Len(bt_signals) >= 3
    /\ bt_signals[1] = "BUY"
    /\ Above(StepIndex(1) - 1)
    /\ \E k \in 2..Len(bt_signals) : bt_signals[k] = "SELL"
    /\ \E k \in 3..Len(bt_signals) : bt_signals[k] = "BUY"

\* C9: forecast never raises on insufficient history: fewer than 14
\* observations (the empty series included) give a result with an 'error'
\* entry and no forecasts; 14 or more give bullish, expected and bearish
\* forecasts and no 'error' entry.
C9_ErrorIffShortHistory ==
    forecast_out # NotCalled =>
        /\ "kind" \notin DOMAIN forecast_out
        /\ Len(prices) < 14 =>
              /\ "error" \in DOMAIN forecast_out
              /\ "forecasts" \notin DOMAIN forecast_out
        /\ Len(prices) >= 14 =>
              /\ "error" \notin DOMAIN forecast_out
              /\ "forecasts" \in DOMAIN forecast_out
              /\ DOMAIN forecast_out.forecasts =
                    {"bullish", "expected", "bearish"}
              /\ \A f \in DOMAIN forecast_out.forecasts :
                    ~IsNaN(forecast_out.forecasts[f])

\* C9 witness: a history of 13 observations was answered with the error
\* entry.
C9_Witness ==
    /\ Len(prices) = 13
    /\ forecast_out # NotCalled
    /\ "error" \in DOMAIN forecast_out

Flat(x) == \A i \in 1..Len(x) : x[i] = x[1]

\* C10: for every flat non-zero price series of length >= 14 and every
\* horizon, forecast returns bullish = expected = bearish = current price
\* (the current_price it reports, the last price rounded to 5 decimals),
\* volatility_index = 0 and expected_change_pct = 0.
C10_FlatSeriesForecast ==
    (forecast_out # NotCalled /\ Len(prices) >= 14 /\ Flat(prices)
     /\ prices[1] # 0) =>
        /\ forecast_out.current_price = Round5(prices[Len(prices)])
        /\ forecast_out.forecasts.bullish = forecast_out.current_price
        /\ forecast_out.forecasts.expected = forecast_out.current_price
        /\ forecast_out.forecasts.bearish = forecast_out.current_price
        /\ forecast_out.volatility_index = 0
        /\ forecast_out.expected_change_pct = 0

\* C10 witness: a flat history of 14 or more prices that are not multiples
\* of 0.00001, forecast over the longest horizon.
C10_Witness ==
    /\ forecast_out # NotCalled
    /\ Len(prices) >= 14
    /\ Flat(prices)
    /\ prices[1] = 1085003
    /\ periods = MaxHorizon
    /\ forecast_out.forecasts.bullish = 1085000
\* The gains and the losses of the price changes in the `period` positions
\* that end at position i.
WindowGains(x, period, i) == SumRange(Gains(x), i - period + 1, i)
WindowLosses(x, period, i) == SumRange(Losses(x), i - period + 1, i)

\* C11 (as claimed): at every position whose trailing window holds `period`
\* price changes, rsi returns a defined value within 0..100; it is 100 when
\* the window has no losses (a flat window included) and 0 when it has
\* losses and no gains.
C11_RsiDefinedAndSaturating ==
    (call.fn = "rsi" /\ ret # NotCalled) =>
        /\ ret.kind = "ndarray"
        /\ \A i \in (call.period + 1)..Len(call.data) :
             /\ ~IsNaN(ret.v[i])
             /\ ret.v[i] >= 0
             /\ ret.v[i] <= Fix(100)
             /\ WindowLosses(call.data, call.period, i) = 0
                  => ret.v[i] = Fix(100)
             /\ (WindowLosses(call.data, call.period, i) > 0
                 /\ WindowGains(call.data, call.period, i) = 0)
                  => ret.v[i] = 0

\* Whether the positions of v below the window are undefined and the others
\* are defined.
WarmupThenDefined(v, period) ==
    \A i \in 1..Len(v) : IsNaN(v[i]) <=> i < period

\* C12 (as claimed): sma, ema, rsi and bollinger_bands with window w return
\* undefined values at the indices below w-1 and defined values from index
\* w-1 on.
C12_UndefinedBelowWindowDefinedAfter ==
    ret # NotCalled =>
        IF call.fn = "bollinger_bands"
        THEN /\ ret.kind = "ok"
             /\ WarmupThenDefined(ret.upper, call.period)
             /\ WarmupThenDefined(ret.middle, call.period)
             /\ WarmupThenDefined(ret.lower, call.period)
        ELSE /\ ret.kind = "ndarray"
             /\ WarmupThenDefined(ret.v, call.period)
\* C13 (as claimed): for every close series of length >= 1 analyze returns
\* an AnalysisResult (it does not raise) whose trend is bullish, bearish or
\* neutral, whose signal is buy, sell, hold or neutral and whose confidence
\* lies within 0..100.
C13_AnalyzeNeverRaises ==
    (result # NotCalled /\ Len(data) >= 1) =>
        /\ result.kind = "AnalysisResult"
        /\ result.trend \in {"bullish", "bearish", "neutral"}
        /\ result.signal \in {"buy", "sell", "hold", "neutral"}
        /\ result.confidence \in 0..100

\* C14 (as claimed): analyze reports a defined sma_200 when the series has
\* 200 or more observations (exactly 200 included) and reports it as absent
\* when the series has fewer.
C14_Sma200FromTwoHundred ==
    result # NotCalled =>
        /\ result.kind = "AnalysisResult"
        /\ Len(data) >= 200 =>
             (result.indicators.has_sma_200
              /\ ~IsNaN(result.indicators.sma_200))
        /\ Len(data) < 200 => ~result.indicators.has_sma_200
\* How many words of the list occur in the headline, ignoring case.
KeywordHits(headline, words) ==
    Cardinality({ k \in DOMAIN words :
                    Contains(lower(words[k]), lower(headline)) })

\* The hits of the words summed over the headlines of the call.
HitsOverHeadlines(words) ==
    SumRange([i \in DOMAIN call.news_headlines |->
                KeywordHits(call.news_headlines[i], words)],
             1, Len(call.news_headlines))

\* Whether the label of the result is the one of positive/(positive +
\* negative)*100 compared with 60 and 40, for p positive and n negative hits.
LabelOfRatio(p, n) ==
    IF p + n = 0 THEN ret.sentiment = "Neutral"
    ELSE /\ ret.sentiment = "Bullish" <=> p * 100 > 60 * (p + n)
         /\ ret.sentiment = "Bearish" <=> p * 100 < 40 * (p + n)
         /\ ret.sentiment \in {"Bullish", "Bearish", "Neutral"}

\* C15 (as claimed): the returned score is 50 without hits and
\* positive/(positive+negative)*100 otherwise, the label follows from the
\* score, the score lies within 0..100 and positive_signals and
\* negative_signals are the two counts.
C15_ExactRatioScore ==
    (call.fn = "analyze_sentiment_score" /\ ret # NotCalled) =>
        LET p == HitsOverHeadlines(positive_words)
            n == HitsOverHeadlines(negative_words)
        IN  /\ ret.positive_signals = p
            /\ ret.negative_signals = n
            /\ ret.score = IF p + n = 0 THEN Fix(50)
                           ELSE (p * 100 * Scale) \div (p + n)
            /\ LabelOfRatio(p, n)
            /\ ret.score >= 0 /\ ret.score <= Fix(100)

\* C15 (amended): positive_signals and negative_signals count the pairs of a
\* headline and a keyword that occurs in it (ignoring case, a keyword once
\* per headline); the returned score is 50 without hits and otherwise
\* positive/(positive+negative)*100 rounded to one decimal; the label follows
\* from the unrounded ratio; the score lies within 0..100.
C15_RatioScoreRoundedToOneDecimal ==
    (call.fn = "analyze_sentiment_score" /\ ret # NotCalled) =>
        LET p == HitsOverHeadlines(positive_words)
            n == HitsOverHeadlines(negative_words)
        IN  /\ ret.positive_signals = p
            /\ ret.negative_signals = n
            /\ ret.score = IF p + n = 0 THEN Fix(50)
                           ELSE RoundTo((p * 100 * Scale) \div (p + n),
                                        Scale \div 10)
            /\ LabelOfRatio(p, n)
            /\ ret.score >= 0 /\ ret.score <= Fix(100)

\* C15 witness: "gain gain" and "fall, rise" give two positive hits and one
\* negative hit, score 66.7 and the label Bullish.
C15_Witness ==
    /\ call.fn = "analyze_sentiment_score"
    /\ ret # NotCalled
    /\ Len(call.news_headlines) = 2
    /\ call.news_headlines[1] =
         <<"g", "a", "i", "n", " ", "g", "a", "i", "n">>
    /\ ret.positive_signals = 2
    /\ ret.negative_signals = 1
    /\ ret.score = 66700000
    /\ ret.sentiment = "Bullish"
\* The positions of call.prices with five prices on either side that are
\* >= all of them (sign = 1) or <= all of them (sign = -1).
MarkedPositions(sign) ==
    { i \in 6..(Len(call.prices) - 5) :
        \A j \in (i - 5)..(i + 5) :
            sign * call.prices[i] >= sign * call.prices[j] }

\* Whether `picked` holds the `levels` most extreme prices at the marked
\* positions, most extreme first: it is ordered, and it holds each price v
\* as often as v is marked, as far as the places left by the more extreme
\* marked prices allow.
MostExtremeFirst(picked, sign) ==
    LET marked == MarkedPositions(sign)
        beyond(v) == Cardinality({ i \in marked :
                                     sign * call.prices[i] > sign * v })
        at(v) == Cardinality({ i \in marked : call.prices[i] = v })
    IN  /\ Len(picked) <= call.levels
        /\ \A k \in 1..(Len(picked) - 1) :
               sign * picked[k] >= sign * picked[k + 1]
        /\ \A k \in 1..Len(picked) :
               \E i \in marked : picked[k] = call.prices[i]
        /\ \A i \in marked :
               Count(picked, call.prices[i]) =
                  Min2(at(call.prices[i]),
                       Max2(0, call.levels - beyond(call.prices[i])))

\* C16 (as claimed): the resistance values are the largest marked highs
\* (at most `levels` of them) in descending order, the support values the
\* smallest marked lows in ascending order, and a series with fewer than 11
\* observations yields empty lists.
C16_ExtremaOfFullWindows ==
    (call.fn = "calculate_support_resistance" /\ ret # NotCalled) =>
        /\ ret.kind = "dict"
        /\ MostExtremeFirst(ret.resistance, 1)
        /\ MostExtremeFirst(ret.support, -1)
        /\ Len(call.prices) < 11 =>
             (ret.resistance = <<>> /\ ret.support = <<>>)
\* The percentage change of the call's prices over the trailing 10 periods
\* (0 for fewer than 10 prices).
TrailingMomentum ==
    LET n == Len(call.prices)
    IN  IF n >= 10
        THEN DivFix(call.prices[n] - call.prices[n - 9],
                    call.prices[n - 9]) * 100
        ELSE 0

\* Standard deviation over mean of the call's trailing 20 prices, times 100.
TrailingVolatility ==
    LET n == Len(call.prices)
        lo == Max2(1, n - 19)
    IN  DivFix(StdDev(call.prices, lo, n, 0),
               SumRange(call.prices, lo, n) \div (n - lo + 1)) * 100

\* C17 (as claimed): for every positive price series the confidence
\* predict_trend returns equals
\* min(50 + |momentum|*5 + (100 - volatility)*0.2, 75); it never exceeds 75
\* and never falls below 0.
C17_ConfidenceWithinZeroAndCap ==
    (call.fn = "predict_trend" /\ ret # NotCalled /\ Len(call.prices) >= 1
     /\ \A i \in DOMAIN call.prices : call.prices[i] > 0) =>
        /\ ret.kind = "dict"
        /\ ret.confidence =
             Min2(Fix(50) + Abs(TrailingMomentum) * 5
                  + (Fix(100) - TrailingVolatility) \div 5, Fix(75))
        /\ ret.confidence <= Fix(75)
        /\ ret.confidence >= 0
\* The weighted mean of the p values of x that end at position i, with the
\* weights 1..p (the latest value weighs most); undefined when one of the
\* values is missing or undefined.
WeightedMean(x, i, p) ==
    IF i < p \/ (\E j \in (i - p + 1)..i : IsNaN(x[j])) THEN NaN
    ELSE SumRange([j \in 1..p |-> j * x[i - p + j]], 1, p)
         \div ((p * (p + 1)) \div 2)

\* Whether the result of the hma call is 2*WMA(x, window/2) - WMA(x, window)
\* smoothed by a WMA of the given period.
HullWithSmoothing(smoothing) ==
    LET x == call.data
        w == call.period
        raw == [i \in 1..Len(x) |->
                   Sub(Times(2, WeightedMean(x, i, w \div 2)),
                       WeightedMean(x, i, w))]
    IN  /\ ret.kind = "ndarray"
        /\ Len(ret.v) = Len(x)
        /\ \A i \in 1..Len(x) : ret.v[i] = WeightedMean(raw, i, smoothing)

\* The integer nearest to the square root of w.
NearestToSqrt(w) ==
    CHOOSE r \in 0..w : (2 * r - 1) * (2 * r - 1) < 4 * w
                        /\ 4 * w < (2 * r + 1) * (2 * r + 1)

\* C18 (as claimed): hma smooths 2*WMA(x, window/2) - WMA(x, window) with a
\* WMA whose period is the integer nearest to sqrt(window) (3 for window 8).
C18_SmoothingPeriodRounded ==
    (call.fn = "hma" /\ ret # NotCalled) =>
        HullWithSmoothing(NearestToSqrt(call.period))

\* C18 (amended): hma smooths 2*WMA(x, window/2) - WMA(x, window), window/2
\* rounded down, with a WMA whose period is the integer part of sqrt(window)
\* (2 for window 8).
C18_SmoothingPeriodTruncated ==
    (call.fn = "hma" /\ ret # NotCalled) =>
        HullWithSmoothing(CHOOSE r \in 0..call.period :
                            r * r <= call.period
                            /\ call.period < (r + 1) * (r + 1))

\* C18 witness: window 8 on a series of 10 or more values; the result is
\* defined from the ninth value on (8 + 2 - 1) and undefined before.
C18_Witness ==
    /\ call.fn = "hma"
    /\ ret # NotCalled
    /\ call.period = 8
    /\ Len(call.data) >= 10
    /\ call.data[2] # call.data[1]
    /\ IsNaN(ret.v[8])
    /\ ~IsNaN(ret.v[9])
\* C19: pivot_points returns PP = (H+L+C)/3, R1 = 2*PP - L and
\* S1 = 2*PP - H (PP = 1.09, R1 = 1.10, S1 = 1.08 for H = 1.10, L = 1.08,
\* C = 1.09), and for L <= C <= H the nine levels are ordered
\* S4 <= S3 <= S2 <= S1 <= PP <= R1 <= R2 <= R3 <= R4.
C19_PivotLevelsOrdered ==
    (call.fn = "pivot_points" /\ ret # NotCalled) =>
        /\ ret.PP = (call.high + call.low + call.close) \div 3
        /\ ret.R1 = 2 * ret.PP - call.low
        /\ ret.S1 = 2 * ret.PP - call.high
        /\ (call.high = 1100000 /\ call.low = 1080000
            /\ call.close = 1090000) =>
               (ret.PP = 1090000 /\ ret.R1 = 1100000 /\ ret.S1 = 1080000)
        /\ (call.low <= call.close /\ call.close <= call.high) =>
               /\ ret.S4 <= ret.S3 /\ ret.S3 <= ret.S2 /\ ret.S2 <= ret.S1
               /\ ret.S1 <= ret.PP /\ ret.PP <= ret.R1
               /\ ret.R1 <= ret.R2 /\ ret.R2 <= ret.R3 /\ ret.R3 <= ret.R4

\* C19 witness: the call with H = 1.10, L = 1.08, C = 1.09 and its levels,
\* which are strictly ordered.
C19_Witness ==
    /\ call.fn = "pivot_points"
    /\ ret # NotCalled
    /\ call.high = 1100000 /\ call.low = 1080000 /\ call.close = 1090000
    /\ ret.PP = 1090000 /\ ret.R1 = 1100000 /\ ret.S1 = 1080000
    /\ ret.S4 < ret.S3 /\ ret.R3 < ret.R4
\* What claim C20 compares of a list of signals: pair, type, confidence,
\* entry, stop and target of each.
Essentials(list) ==
    [k \in 1..Len(list) |->
        <<list[k].pair, list[k].signal_type, list[k].confidence,
          list[k].entry_price, list[k].stop_loss, list[k].take_profit>>]
    \o <<>>

\* The signals check_all_pairs returns when the monitored pairs of the call
\* are analysed in the order q (a permutation of their positions), each pair
\* with its own series.
SignalsInOrder(q) ==
    check_all_pairs([k \in DOMAIN q |-> call.monitored_pairs[q[k]]],
                    [p \in DOMAIN call.feed |-> Fetched(call.feed[p])], 1)

Orders ==
    { q \in [DOMAIN call.monitored_pairs -> DOMAIN call.monitored_pairs] :
        \A i, j \in DOMAIN q : i # j => q[i] # q[j] }

\* Whether the signal of every monitored pair is the one check_all_pairs
\* produces when that pair is monitored alone, and every order of analysis
\* yields the same set of signals.
SignalsIndependent ==
    /\ \A k \in DOMAIN call.monitored_pairs :
          LET alone == Essentials(
                  check_all_pairs(<<call.monitored_pairs[k]>>,
                                  [p \in DOMAIN call.feed |->
                                     Fetched(call.feed[p])], 1))
              own == SelectSeq(Essentials(ret.signals),
                               LAMBDA e : e[1] = call.monitored_pairs[k])
          IN  own = alone
    /\ \A q \in Orders :
          Range(Essentials(SignalsInOrder(q)))
             = Range(Essentials(ret.signals))

\* C20 (as claimed): the signal of a pair depends only on its own series,
\* every order of analysis yields the same set of signals, and
\* get_opportunities returns the same sequence for every order.
C20_SameSequenceInAnyOrder ==
    (call.fn = "get_opportunities" /\ ret # NotCalled) =>
        /\ SignalsIndependent
        /\ \A q \in Orders :
              Essentials(get_opportunities(SignalsInOrder(q),
                                           call.min_confidence))
                 = Essentials(ret.opportunities)

\* C20 (amended): the signal of a pair depends only on its own series and
\* every order of analysis yields the same set of signals; get_opportunities
\* returns the same signals for every order, by non-increasing confidence,
\* the signals of equal confidence in the order in which their pairs were
\* analysed.
C20_SameSignalsTiesInAnalysisOrder ==
    (call.fn = "get_opportunities" /\ ret # NotCalled) =>
        /\ SignalsIndependent
        /\ \A q \in Orders :
              LET found == get_opportunities(SignalsInOrder(q),
                                             call.min_confidence)
                  place(pair) == CHOOSE k \in DOMAIN q :
                                    call.monitored_pairs[q[k]] = pair
              IN  /\ Range(Essentials(found))
                        = Range(Essentials(ret.opportunities))
                  /\ Len(found) = Len(ret.opportunities)
                  /\ NonIncreasing(found)
                  /\ \A i, j \in DOMAIN found :
                        (i < j /\ found[i].confidence = found[j].confidence)
                           => place(found[i].pair) < place(found[j].pair)

\* C20 witness: two monitored pairs, the second of the default list first,
\* both with a buy of the same confidence: the opportunities come in the
\* order of analysis.
C20_Witness ==
    /\ call.fn = "get_opportunities"
    /\ ret # NotCalled
    /\ call.monitored_pairs = <<"GBP/USD", "EUR/USD">>
    /\ call.feed["USD/JPY"] = "import_error"
    /\ Len(ret.opportunities) = 2
    /\ ret.opportunities[1].pair = "GBP/USD"
    /\ ret.opportunities[2].pair = "EUR/USD"
    /\ ret.opportunities[1].confidence = ret.opportunities[2].confidence
\* C21: after setup_alerts(min_confidence = X, pairs = P) every later
\* run_check analyses exactly the pairs P (the default pairs when P is
\* empty) and returns only signals whose confidence is at least X.
C21_RunCheckHonoursSetup ==
    (call.fn = "run_check" /\ configured.kind = "setup_alerts") =>
        /\ ret.analysed = IF configured.pairs # <<>> THEN configured.pairs
                          ELSE MonitoredPairs
        /\ \A k \in DOMAIN ret.opportunities :
              ret.opportunities[k].confidence >= configured.min_confidence
\* Whether the history holds an alert for the pair and the type of the
\* signal that was recorded less than 24 hours before t.
RecentlyNotified(history, signal, t) ==
    \E k \in DOMAIN history :
        /\ history[k].signal.pair = signal.pair
        /\ history[k].signal.type = signal.signal_type
        /\ t - history[k].created_at < 24

\* C22: every check_and_notify call completes without raising; it sends an
\* alert for every returned opportunity (one entry appended to
\* notification_history, the signal in the returned list) unless an alert
\* for the same pair and signal type was recorded less than 24 hours
\* earlier, in which case the signal is skipped and the history is left
\* unchanged for it.
C22_NotifiesUnlessRecent ==
    [][(call'.fn = "check_and_notify" /\ now' # now) =>
          /\ ret'.kind = "list"
          /\ ret'.sent =
               SelectSeq(ret'.opportunities,
                         LAMBDA s : ~RecentlyNotified(notification_history,
                                                      s, now'))
          /\ Len(notification_history')
                = Len(notification_history) + Len(ret'.sent)
          /\ SubSeq(notification_history', 1, Len(notification_history))
                = notification_history]_vars
\* C23: in every interleaving of the thread running start_monitoring and the
\* thread calling stop_monitoring, once stop_monitoring has returned the
\* monitoring loop eventually exits, running stays False, the schedule is
\* empty and no further scheduled check_all_pairs run is started.
C23_StopEndsMonitoring ==
    /\ [](stop_pc = "returned" => <>(start_pc = "exited"))
    /\ [](stop_pc = "returned" => (~running /\ jobs = <<>>))
    /\ [][stop_pc = "returned" =>
            ~(pending # <<>> /\ pending' = Tail(pending))]_vars
\* The snapshot with the values named in `und` undefined.
Undefined(ind, und) == [k \in DOMAIN ind |-> IF k \in und THEN NaN ELSE ind[k]]

\* C24: _determine_trend never returns NEUTRAL: for every indicator
\* snapshot, undefined values included, the result is BULLISH or BEARISH.
C24_TrendNeverNeutral ==
    out.kind = "determine_trend" =>
        /\ out.trend \in {"bullish", "bearish"}
        /\ \A und \in SUBSET {"ema_12", "macd", "macd_signal"} :
              determine_trend(Undefined(indicators, und))
                 \in {"bullish", "bearish"}

\* C24 witness: both SMAs undefined and the MACD above its signal line: two
\* bearish votes against one bullish vote, and the trend is bearish.
C24_Witness ==
    /\ out.kind = "determine_trend"
    /\ IsNaN(indicators.sma_20)
    /\ IsNaN(indicators.sma_50)
    /\ Gt(indicators.macd, indicators.macd_signal)
    /\ out.trend = "bearish"
\* The score without a Bollinger term: the RSI, MACD and price-vs-SMA terms.
ScoreWithoutBands(ind, rsi_v) ==
    (IF Lt(rsi_v, Fix(30)) THEN 30 ELSE IF Gt(rsi_v, Fix(70)) THEN -30 ELSE 0)
    + (IF Gt(ind.macd, ind.macd_signal) THEN 20 ELSE -20)
    + (IF Gt(ind.ema_12, ind.sma_20) THEN 20 ELSE -20)

GridDecisions ==
    { [rsi |-> r, sma_20 |-> a, sma_50 |-> b, macd |-> m, signal_line |-> s,
       decision |->
          decide_signal(vote_scores(r, a, b, m, s, m - s).buy_score,
                        vote_scores(r, a, b, m, s, m - s).sell_score)] :
        r \in RsiLevels, a \in Levels \cup {NaN}, b \in Levels \cup {NaN},
        m \in -1..1, s \in -1..1 }

\* What claim C26 says of a decision d taken on the values l.
BuyOrSellAtFourAndAHalf(l, d) ==
    /\ d.confidence \in {Fix(50), 82500000}
    /\ d.signal_type = "hold" <=> d.confidence = Fix(50)
    /\ d.signal_type = "buy" <=>
          /\ Lt(l.rsi, Fix(30))
          /\ Gt(l.sma_20, l.sma_50)
          /\ Gt(l.macd, l.signal_line)
    /\ d.signal_type = "sell" <=>
          /\ Gt(l.rsi, Fix(70))
          /\ ~Gt(l.sma_20, l.sma_50)
          /\ ~Gt(l.macd, l.signal_line)

\* C26: every TradingSignal of analyze_pair has confidence 50 (hold) or 82.5
\* (buy or sell): the histogram is positive exactly when MACD is above its
\* signal line, so 4.5 is the only score that reaches the threshold; buy iff
\* RSI < 30, SMA20 > SMA50 and MACD above its signal line, sell iff RSI > 70
\* and neither comparison holds; the cap of 90 is never reached.
C26_ConfidenceFiftyOrEightyTwoAndAHalf ==
    /\ \A k \in Analysed :
          /\ Gt(trace[k].histogram, 0)
                <=> Gt(trace[k].macd, trace[k].signal_line)
          /\ trace[k].buy_score >= 40 => trace[k].buy_score = 45
          /\ trace[k].sell_score >= 40 => trace[k].sell_score = 45
          /\ BuyOrSellAtFourAndAHalf(trace[k], SignalOf(k))
    /\ \A g \in GridDecisions : BuyOrSellAtFourAndAHalf(g, g.decision)

\* C26 witness: a sell of confidence 82.5 from RSI above 70, SMA20 not
\* above SMA50 and MACD not above its signal line.
C26_Witness ==
    \E k \in Analysed :
        /\ SignalOf(k).signal_type = "sell"
        /\ SignalOf(k).confidence = 82500000
        /\ Gt(trace[k].rsi, Fix(70))
        /\ ~Gt(trace[k].sma_20, trace[k].sma_50)
        /\ trace[k].sell_score = 45
\* C27: for every close series with 1 to 19 observations analyze returns
\* trend BEARISH and never signal BUY.
C27_ShortSeriesBearishNeverBuy ==
    (result # NotCalled /\ Len(data) >= 1 /\ Len(data) <= 19) =>
        /\ result.kind = "AnalysisResult"
        /\ result.trend = "bearish"
        /\ result.signal # "buy"
\* C28: for len(prices) >= long_period, backtest_signal emits exactly
\* len(prices) - long_period signals and buy + sell + hold = total; BUY and
\* SELL strictly alternate starting with BUY (no BUY while long, no SELL
\* while flat), so buy - sell is 0 or 1; a shorter series yields an error
\* result instead.
C28_CountsAndAlternation ==
    bt_out # NotCalled =>
        IF Len(bt_prices) < bt_periods[2]
        THEN DOMAIN bt_out = {"error"}
        ELSE /\ "error" \notin DOMAIN bt_out
             /\ Len(bt_signals) = Len(bt_prices) - bt_periods[2]
             /\ bt_out.total_signals = Len(bt_prices) - bt_periods[2]
             /\ bt_out.buy_signals = Count(bt_signals, "BUY")
             /\ bt_out.sell_signals = Count(bt_signals, "SELL")
             /\ bt_out.buy_signals + bt_out.sell_signals
                   + bt_out.hold_signals = bt_out.total_signals
             /\ \A k \in 1..Len(bt_signals) :
                   /\ bt_signals[k] = "BUY" => ~LongBefore(k)
                   /\ bt_signals[k] = "SELL" => LongBefore(k)
             /\ bt_out.buy_signals - bt_out.sell_signals \in {0, 1}

\* C28 witness: four steps that emit two BUYs, the SELL between them and
\* one HOLD.
C28_Witness ==
    /\ bt_out # NotCalled
    /\ Len(bt_prices) = bt_periods[2] + 4
    /\ bt_out.total_signals = 4
    /\ bt_out.buy_signals = 2
    /\ bt_out.sell_signals = 1
    /\ bt_out.hold_signals = 1
\* The place of a pair in the default list of monitored pairs.
PlaceOf(pair) == CHOOSE k \in DOMAIN MonitoredPairs : MonitoredPairs[k] = pair

\* C29: get_opportunities never returns a hold, for any min_confidence (the
\* hold confidence of 50 included), and signals of equal confidence keep
\* the order of monitored_pairs.
C29_NoHoldTiesInMonitoredOrder ==
    pc = "returned" =>
        /\ \A k \in DOMAIN opportunities :
              opportunities[k].signal_type # "hold"
        /\ \A i, j \in DOMAIN opportunities :
              (i < j /\ opportunities[i].confidence
                           = opportunities[j].confidence)
                 => PlaceOf(opportunities[i].pair)
                       < PlaceOf(opportunities[j].pair)

\* C29 witness: with min_confidence 50, a hold between two buys of
\* confidence 78 is left out and the buys come back in the order of their
\* pairs.
C29_Witness ==
    /\ pc = "returned"
    /\ min_confidence = Fix(50)
    /\ Len(returned) = 3
    /\ returned[2].signal_type = "hold"
    /\ Confidences(returned) = <<Fix(78), Fix(50), Fix(78)>>
    /\ PairsOf(opportunities) = <<MonitoredPairs[1], MonitoredPairs[3]>>
\* The monitored pairs whose analysis returns a signal when the data
\* collaborator produces `market`, at clock reading t.
PairsWithSignal(market, t) ==
    { p \in Range(forex_monitored_pairs) :
        analyze_pair(p, Fetched(market[p]), t).value.kind = "TradingSignal" }

\* C30: a check_all_pairs call writes last_check[pair] for the pairs whose
\* analysis returned a signal in that call and for no other; the entries of
\* failed or skipped pairs, monitored_pairs and self.signals are left
\* unchanged, and the returned list holds at most one signal per monitored
\* pair, in monitored_pairs order.
C30_LastCheckOnlyForSignals ==
    [][(call'.fn = "run_check" /\ now' # now) =>
          /\ \A p \in PairsWithSignal(call'.market, now') :
                p \in DOMAIN last_check' /\ last_check'[p] = now'
          /\ \A p \in (Range(MonitoredPairs) \cup DOMAIN last_check
                       \cup DOMAIN last_check')
                         \ PairsWithSignal(call'.market, now') :
                /\ p \in DOMAIN last_check' <=> p \in DOMAIN last_check
                /\ p \in DOMAIN last_check => last_check'[p] = last_check[p]
          /\ forex_monitored_pairs' = forex_monitored_pairs
          /\ self_signals' = self_signals
          /\ PairsOf(ret'.signals)
                = SelectSeq(forex_monitored_pairs,
                            LAMBDA p : p \in PairsWithSignal(call'.market,
                                                             now'))]_vars

\* C30 witness: the second check found a signal for EUR/USD and none for
\* GBP/USD, whose entry of the first check is still there.
C30_Witness ==
    /\ call.fn = "run_check"
    /\ now = 2
    /\ call.market["GBP/USD"] = "import_error"
    /\ PairsOf(ret.signals) = <<"EUR/USD">>
    /\ "GBP/USD" \in DOMAIN last_check
    /\ last_check["GBP/USD"] = 1
    /\ last_check["EUR/USD"] = 2
=============================================================================
